---- MODULE Spec2Model ----
(***************************************************************************)
(* A model of the PennMUSH name matcher of src/generic/match.c:            *)
(* match_result_internal() and its helpers parse_english(), matched(),     *)
(* match_obj_list(), match_attr_helper(), choose_thing(), match_player().  *)
(*                                                                         *)
(* Text is a sequence of one-character strings.  A dbref is an integer;    *)
(* a set of flag names stands for the flag bit mask and a set of type      *)
(* names for the type bit mask.                                            *)
(***************************************************************************)
EXTENDS Integers, Sequences, FiniteSets, TLC

VARIABLES
  npc,      \* a call of npc_findpath: its arguments, the rooms and exits it
            \* reads, and its locals
  peer,     \* a second call in progress, where two calls are interleaved
  rev,      \* which of the two orders the contents and exit chains have
  call,     \* the arguments of the call: who, where, xname, type, flags
  mc,       \* struct match_context
  pc,       \* the position of the call inside match_result_internal
  pool,     \* the pool of the search loop that is being enumerated
  attrs,    \* the GENERIC` attributes atr_iter_get_parent has still to visit
  pools,    \* the pools enumerated so far, in order
  seen,     \* the candidates enumerated so far, in order, each with its branch
  result,   \* the value returned
  via,      \* the return statement that returned it
  msgs      \* the notifications sent to the requester

vars ==
  <<npc, peer, rev, call, mc, pc, pool, attrs, pools, seen, result, via, msgs>>

-----------------------------------------------------------------------------
(* Text.                                                                   *)

UpperToLower ==
  [c \in {"A","E","H","I","M","N","O","P","R","S","T","Y","D","W"} |->
     CASE c = "A" -> "a" [] c = "E" -> "e" [] c = "H" -> "h" [] c = "I" -> "i"
       [] c = "M" -> "m" [] c = "N" -> "n" [] c = "O" -> "o" [] c = "P" -> "p"
       [] c = "R" -> "r" [] c = "S" -> "s" [] c = "T" -> "t" [] c = "Y" -> "y"
       [] c = "D" -> "d" [] c = "W" -> "w"]

\* tolower(), as strcasecmp and strncasecmp apply it
ToLower(c) == IF c \in DOMAIN UpperToLower THEN UpperToLower[c] ELSE c

DigitVal ==
  [c \in {"0","1","2","3","4","5","6","7","8","9"} |->
     CASE c = "0" -> 0 [] c = "1" -> 1 [] c = "2" -> 2 [] c = "3" -> 3
       [] c = "4" -> 4 [] c = "5" -> 5 [] c = "6" -> 6 [] c = "7" -> 7
       [] c = "8" -> 8 [] c = "9" -> 9]

isdigit(c) == c \in DOMAIN DigitVal

isalnum(c) == isdigit(c) \/ ToLower(c) \in
  {"a","b","c","d","e","f","g","h","i","j","k","l","m","n","o","p","q","r",
   "s","t","u","v","w","x","y","z"}

\* the text left after its first n characters (pointer += n)
Drop(s, n) == IF n >= Len(s) THEN <<>> ELSE SubSeq(s, n + 1, Len(s))

\* !strcasecmp(a, b)
strcaseeq(a, b) ==
  /\ Len(a) = Len(b)
  /\ \A i \in 1..Len(a) : ToLower(a[i]) = ToLower(b[i])

\* !strncasecmp(s, p, Len(p)): s starts with p, whatever the case
strncaseeq(s, p) ==
  /\ Len(s) >= Len(p)
  /\ \A i \in 1..Len(p) : ToLower(s[i]) = ToLower(p[i])

\* while (**name == ' ') (*name)++;
RECURSIVE SkipSpaces(_)
SkipSpaces(s) ==
  IF s # <<>> /\ s[1] = " " THEN SkipSpaces(Drop(s, 1)) ELSE s

\* strchr(s, c) as an index, 0 when c does not occur
IndexOf(s, c) ==
  IF \E i \in 1..Len(s) : s[i] = c
  THEN CHOOSE i \in 1..Len(s) : s[i] = c /\ \A j \in 1..(i - 1) : s[j] # c
  ELSE 0

\* the number of leading digits of s (where strtoul stops)
DigitRun(s) ==
  IF \E i \in 1..Len(s) : ~isdigit(s[i])
  THEN (CHOOSE i \in 1..Len(s) :
          ~isdigit(s[i]) /\ \A j \in 1..(i - 1) : isdigit(s[j])) - 1
  ELSE Len(s)

RECURSIVE DigitsValue(_, _)
DigitsValue(s, acc) ==
  IF s = <<>> THEN acc ELSE DigitsValue(Drop(s, 1), acc * 10 + DigitVal[s[1]])

\* (int) strtoul(s, &e, 10) of a digit run; the runs of the texts below are
\* far too short to leave the range of int
strtoul(s) == DigitsValue(s, 0)

-----------------------------------------------------------------------------
(* parse_english(): the adjective phrase in front of a name.               *)

\* the restriction adjectives, as strncasecmp is given them
s_this_here == <<"t","h","i","s"," ","h","e","r","e"," ">>
s_here      == <<"h","e","r","e"," ">>
s_this      == <<"t","h","i","s"," ">>
s_my        == <<"m","y"," ">>
s_me        == <<"m","e"," ">>
s_toward    == <<"t","o","w","a","r","d"," ">>

\* the ordinal suffixes, as strcasecmp is given them
s_th == <<"t","h">>
s_st == <<"s","t">>
s_nd == <<"n","d">>
s_rd == <<"r","d">>

\* pe_neighbor() with "this here " read as one more spelling of "here "
pe_neighbor_same(st) ==
  IF "MAT_NEIGHBOR" \in st.flags
  THEN IF strncaseeq(st.name, s_this_here)
       THEN [name  |-> Drop(st.name, 10),
             flags |-> st.flags \ {"MAT_POSSESSION", "MAT_EXIT",
                                   "MAT_REMOTE_CONTENTS", "MAT_CONTAINER"}]
       ELSE IF strncaseeq(st.name, s_here) \/ strncaseeq(st.name, s_this)
       THEN [name  |-> Drop(st.name, 5),
             flags |-> st.flags \ {"MAT_POSSESSION", "MAT_EXIT",
                                   "MAT_REMOTE_CONTENTS", "MAT_CONTAINER"}]
       ELSE st
  ELSE st

\* "this here ", "here " and "this ", tried when MAT_NEIGHBOR is set
pe_neighbor(st) ==
  IF "MAT_NEIGHBOR" \in st.flags
  THEN IF strncaseeq(st.name, s_this_here)
       THEN [name  |-> Drop(st.name, 10),
             flags |-> st.flags \ {"MAT_POSSESSION", "MAT_EXIT"}]
       ELSE IF strncaseeq(st.name, s_here) \/ strncaseeq(st.name, s_this)
       THEN [name  |-> Drop(st.name, 5),
             flags |-> st.flags \ {"MAT_POSSESSION", "MAT_EXIT",
                                   "MAT_REMOTE_CONTENTS", "MAT_CONTAINER"}]
       ELSE st
  ELSE st

\* "my " and "me ", tried when MAT_POSSESSION is (still) set
pe_possession(st) ==
  IF "MAT_POSSESSION" \in st.flags
     /\ (strncaseeq(st.name, s_my) \/ strncaseeq(st.name, s_me))
  THEN [name  |-> Drop(st.name, 3),
        flags |-> st.flags \ {"MAT_NEIGHBOR", "MAT_EXIT", "MAT_CONTAINER",
                              "MAT_REMOTE_CONTENTS"}]
  ELSE st

\* "toward ", tried when MAT_EXIT or MAT_CARRIED_EXIT is (still) set
pe_toward(st) ==
  IF st.flags \cap {"MAT_EXIT", "MAT_CARRIED_EXIT"} # {}
     /\ strncaseeq(st.name, s_toward)
  THEN [name  |-> Drop(st.name, 7),
        flags |-> st.flags \ {"MAT_NEIGHBOR", "MAT_POSSESSION",
                              "MAT_CONTAINER", "MAT_REMOTE_CONTENTS"}]
  ELSE st

\* pe_count() with the suffix English gives a number: "th" for every number
\* that ends in 11, 12 or 13
pe_count_english(count, e) ==
  IF e # <<>>
  THEN IF count < 1 THEN -1
       ELSE IF count % 100 > 10 /\ count % 100 < 14
       THEN (IF strcaseeq(e, s_th) THEN count ELSE -1)
       ELSE IF count % 10 = 1
       THEN (IF strcaseeq(e, s_st) THEN count ELSE -1)
       ELSE IF count % 10 = 2
       THEN (IF strcaseeq(e, s_nd) THEN count ELSE -1)
       ELSE IF count % 10 = 3
       THEN (IF strcaseeq(e, s_rd) THEN count ELSE -1)
       ELSE IF strcaseeq(e, s_th) THEN count ELSE -1
  ELSE -1

\* the count a digit run and its suffix e stand for, -1 when they disagree
pe_count(count, e) ==
  IF e # <<>>
  THEN IF count < 1 THEN -1
       ELSE IF count > 10 /\ count < 14
       THEN (IF strcaseeq(e, s_th) THEN count ELSE -1)
       ELSE IF count % 10 = 1
       THEN (IF strcaseeq(e, s_st) THEN count ELSE -1)
       ELSE IF count % 10 = 2
       THEN (IF strcaseeq(e, s_nd) THEN count ELSE -1)
       ELSE IF count % 10 = 3
       THEN (IF strcaseeq(e, s_rd) THEN count ELSE -1)
       ELSE IF strcaseeq(e, s_th) THEN count ELSE -1
  ELSE -1

\* parse_english() that on a malformed count goes back to the name and the
\* flags it was called with
parse_english_reset(name, flags) ==
  LET a1 == pe_neighbor([name |-> name, flags |-> flags])
      a2 == pe_possession(a1)
      a3 == pe_toward(a2)
      n4 == SkipSpaces(a3.name)
  IN  IF n4 = <<>>
      THEN [count |-> 0, name |-> name, flags |-> flags]
      ELSE IF ~isdigit(n4[1])
      THEN [count |-> 0, name |-> n4, flags |-> a3.flags]
      ELSE IF IndexOf(n4, " ") = 0
      THEN [count |-> 0, name |-> n4, flags |-> a3.flags]
      ELSE LET sp    == IndexOf(n4, " ")
               tok   == SubSeq(n4, 1, sp - 1)
               nd    == DigitRun(tok)
               count == pe_count(strtoul(SubSeq(tok, 1, nd)), Drop(tok, nd))
           IN  IF count < 0
               THEN [count |-> 0, name |-> name, flags |-> flags]
               ELSE [count |-> count, name |-> SkipSpaces(Drop(n4, sp)),
                     flags |-> a3.flags]

\* parse_english(&name, &flags): the count returned, and name and flags as
\* the call leaves them
parse_english(name, flags) ==
  LET a1 == pe_neighbor([name |-> name, flags |-> flags])
      a2 == pe_possession(a1)
      a3 == pe_toward(a2)
      n4 == SkipSpaces(a3.name)
  IN  IF n4 = <<>>
      THEN [count |-> 0, name |-> name, flags |-> flags]
      ELSE IF ~isdigit(n4[1])
      THEN [count |-> 0, name |-> n4, flags |-> a3.flags]
      ELSE IF IndexOf(n4, " ") = 0
      THEN [count |-> 0, name |-> n4, flags |-> a3.flags]
      ELSE LET sp    == IndexOf(n4, " ")
               tok   == SubSeq(n4, 1, sp - 1)
               nd    == DigitRun(tok)
               count == pe_count(strtoul(SubSeq(tok, 1, nd)), Drop(tok, nd))
           IN  IF count < 0
               THEN [count |-> 0, name |-> n4, flags |-> a3.flags]
               ELSE [count |-> count, name |-> SkipSpaces(Drop(n4, sp)),
                     flags |-> a3.flags]

-----------------------------------------------------------------------------
(* The database the matcher reads.  It is never written by a match.        *)
(*                                                                         *)
(*   #0  room   "master"      the master room; holds #17; exit #12         *)
(*   #1  room   "apple hall"  zone #2; holds #3 #5 #6 #4; exits #13 #14    *)
(*   #2  room   "zone"        a zone master room; holds #11; exit #15      *)
(*   #3  player "bob"         alias "bo"; in #1; carries #9 #10            *)
(*   #4  player "apple"       alias "app"; in #1                           *)
(*   #5  thing  "apple pie"   in #1                                        *)
(*   #6  thing  "bag"         in #1; holds #7 #8                           *)
(*   #7  thing  "apple pie"   in #6                                        *)
(*   #8  player "apple pie"   in #6                                        *)
(*   #9  thing  "apple"       in #3                                        *)
(*   #10 thing  "apple"       in #3                                        *)
(*   #11 thing  "apple"       GENERIC; in #2                               *)
(*   #12 exit   "north;out"   from #0 to #1                                *)
(*   #13 exit   "north;n"     from #1 to #0                                *)
(*   #14 exit   "north"       from #1 to #2                                *)
(*   #15 exit   "n;zone"      from #2 to #1                                *)
(*   #16 garbage                                                           *)
(*   #17 thing  "north"       in #0                                        *)

NOTHING == -1
AMBIGUOUS == -2
MASTER_ROOM == 0

Objects == 0..17

\* NOTYPE has every type bit set
NOTYPE == {"ROOM", "THING", "EXIT", "PLAYER", "GARBAGE"}

GoodObject(x) == x \in Objects

TypeTable ==
  <<"ROOM", "ROOM", "ROOM", "PLAYER", "PLAYER", "THING", "THING", "THING",
    "PLAYER", "THING", "THING", "THING", "EXIT", "EXIT", "EXIT", "EXIT",
    "GARBAGE", "THING">>

Typeof(x) == TypeTable[x + 1]

IsRoom(x) == Typeof(x) = "ROOM"
IsExit(x) == Typeof(x) = "EXIT"
IsPlayer(x) == Typeof(x) = "PLAYER"
IsGarbage(x) == Typeof(x) = "GARBAGE"

RealGoodObject(x) == GoodObject(x) /\ ~IsGarbage(x)

n_apple     == <<"a","p","p","l","e">>
n_apple_pie == <<"a","p","p","l","e"," ","p","i","e">>
n_north     == <<"n","o","r","t","h">>

NameTable ==
  << <<"m","a","s","t","e","r">>,
     <<"a","p","p","l","e"," ","h","a","l","l">>,
     <<"z","o","n","e">>,
     <<"b","o","b">>,
     n_apple,
     n_apple_pie,
     <<"b","a","g">>,
     n_apple_pie,
     n_apple_pie,
     n_apple,
     n_apple,
     n_apple,
     <<"n","o","r","t","h",";","o","u","t">>,
     <<"n","o","r","t","h",";","n">>,
     <<"n","o","r","t","h">>,
     <<"n",";","z","o","n","e">>,
     <<>>,
     n_north >>

Name(x) == NameTable[x + 1]

\* the ALIAS attribute of an object, the empty text when it has none
AliasAttr(x) ==
  CASE x = 3 -> <<"b","o">>
    [] x = 4 -> <<"a","p","p">>
    [] OTHER -> <<>>

\* db[x].location: the container of a thing or player, the destination of
\* an exit, the drop-to of a room
LocationTable ==
  <<-1, -1, -1, 1, 1, 1, 1, 6, 6, 3, 3, 2, 1, 0, 2, 1, -1, 0>>

Location(x) == LocationTable[x + 1]

\* Source(x) of an exit: the room it leaves
SourceTable ==
  <<-1, -1, -1, -1, -1, -1, -1, -1, -1, -1, -1, -1, 0, 1, 1, 2, -1, -1>>

Source(x) == SourceTable[x + 1]

ZoneTable ==
  <<-1, 2, -1, -1, -1, -1, -1, -1, -1, -1, -1, -1, -1, -1, -1, -1, -1, -1>>

Zone(x) == ZoneTable[x + 1]

\* the contents chain of each object, first to last, in the first order
ContentsTable ==
  << <<17>>, <<3, 5, 6, 4>>, <<11>>, <<9, 10>>, <<>>, <<>>, <<7, 8>>, <<>>,
     <<>>, <<>>, <<>>, <<>>, <<>>, <<>>, <<>>, <<>>, <<>>, <<>> >>

\* the exit chain of each room, first to last, in the first order
ExitsTable ==
  << <<12>>, <<13, 14>>, <<15>>, <<>>, <<>>, <<>>, <<>>, <<>>,
     <<>>, <<>>, <<>>, <<>>, <<>>, <<>>, <<>>, <<>>, <<>>, <<>> >>

Reverse(s) == [i \in 1..Len(s) |-> s[Len(s) + 1 - i]]

\* a chain as the database holds it: the second order is the first reversed
Chain(s) == IF rev THEN Reverse(s) ELSE s

First(s) == IF s = <<>> THEN NOTHING ELSE s[1]

\* Contents(x): the head of the contents chain of x
Contents(x) == First(Chain(ContentsTable[x + 1]))

\* Exits(x): the head of the exit chain of room x
Exits(x) == First(Chain(ExitsTable[x + 1]))

\* the chain object x is linked into
ChainOf(x) ==
  IF IsExit(x) THEN Chain(ExitsTable[Source(x) + 1])
  ELSE IF GoodObject(Location(x)) THEN Chain(ContentsTable[Location(x) + 1])
  ELSE <<x>>

\* Next(x) of the database: db[x].next, the object after x in its chain
NextObj(x) ==
  LET c == ChainOf(x)
      i == IndexOf(c, x)
  IN  IF i < Len(c) THEN c[i + 1] ELSE NOTHING

\* the GENERIC`#<dbref> attributes of an object, in the order
\* atr_iter_get_parent visits them: the dbref named and the value held
GenericAttrs(x) ==
  CASE x = 1 -> << [obj |-> 5, num |-> 1], [obj |-> 11, num |-> 1] >>
    [] x = 3 -> << [obj |-> 11, num |-> 1] >>
    [] x = 6 -> << [obj |-> 11, num |-> 0] >>
    [] OTHER -> <<>>

\* has_flag_by_name(x, "GENERIC", TYPE_THING)
IsGeneric(x) == x = 11

\* controls(who, x)
controls(who, x) ==
  CASE who = 3 -> x \in {3, 5, 7, 9, 13}
    [] who = 4 -> GoodObject(x)
    [] OTHER -> FALSE

\* can_interact(x, who, INTERACT_MATCH, NULL)
can_interact(x, who) ==
  CASE who = 3 -> x # 8
    [] who = 4 -> x # 5
    [] OTHER -> TRUE

\* could_doit(who, x, NULL): who passes the Basic lock of x
could_doit(who, x) ==
  CASE who = 3 -> x \notin {4, 10, 14}
    [] who = 4 -> x \notin {7, 9}
    [] OTHER -> TRUE

Long_Fingers(who) == who = 4

\* nearby(a, b): neither is a room, and one holds the other or they share
\* a location
nearby(a, b) ==
  /\ GoodObject(a) /\ GoodObject(b)
  /\ ~IsRoom(a) /\ ~IsRoom(b)
  /\ \/ Location(a) = b
     \/ Location(b) = a
     \/ Location(b) = Location(a)

-----------------------------------------------------------------------------
(* Name comparison and player lookup, as the matcher calls them.           *)

\* the positions of src where a word begins, as string_match scans them
WordStarts(src) ==
  {i \in 1..Len(src) : i = 1 \/ (isalnum(src[i]) /\ ~isalnum(src[i - 1]))}

\* string_match(src, sub): sub begins a word of src
string_match(src, sub) ==
  /\ sub # <<>>
  /\ \E i \in WordStarts(src) : strncaseeq(Drop(src, i - 1), sub)

\* the entries of a semicolon-separated list
RECURSIVE SplitList(_)
SplitList(list) ==
  LET i == IndexOf(list, ";")
  IN  IF i = 0 THEN {list}
      ELSE {SubSeq(list, 1, i - 1)} \cup SplitList(Drop(list, i))

\* an entry without the spaces after it
RECURSIVE TrimRight(_)
TrimRight(s) ==
  IF s # <<>> /\ s[Len(s)] = " " THEN TrimRight(SubSeq(s, 1, Len(s) - 1)) ELSE s

\* check_alias(command, list): command is one entry of list
check_alias(command, list) ==
  /\ list # <<>>
  /\ \E e \in SplitList(list) : strcaseeq(command, TrimRight(SkipSpaces(e)))

\* match_aliases(match, name)
match_aliases(match, name) ==
  IF ~IsPlayer(match) /\ ~IsExit(match) THEN FALSE
  ELSE IF IsExit(match) /\ check_alias(name, Name(match)) THEN TRUE
  ELSE IF AliasAttr(match) = <<>> THEN FALSE
  ELSE check_alias(name, AliasAttr(match))

\* parse_objid(xname): the object "#<digits>" names, NOTHING otherwise
parse_objid(xname) ==
  IF Len(xname) >= 2 /\ xname[1] = "#"
     /\ \A i \in 2..Len(xname) : isdigit(xname[i])
  THEN LET n == strtoul(Drop(xname, 1))
       IN  IF GoodObject(n) THEN n ELSE NOTHING
  ELSE NOTHING

Players == {x \in Objects : IsPlayer(x)}

\* lookup_player(name): the player of that name or alias
lookup_player(name) ==
  IF name = <<>> THEN NOTHING
  ELSE IF name[1] = "#"
  THEN (IF GoodObject(parse_objid(name)) /\ IsPlayer(parse_objid(name))
        THEN parse_objid(name) ELSE NOTHING)
  ELSE LET hit == {x \in Players : strcaseeq(Name(x), name)
                                   \/ check_alias(name, AliasAttr(x))}
       IN  IF hit = {} THEN NOTHING ELSE CHOOSE x \in hit : TRUE

\* short_page(name): the connected player whose name starts with name
short_page(name) ==
  LET full == {x \in Players : strcaseeq(Name(x), name)}
      part == {x \in Players : strncaseeq(Name(x), name)}
  IN  IF name = <<>> \/ part = {} THEN NOTHING
      ELSE IF full # {} THEN CHOOSE x \in full : TRUE
      ELSE IF Cardinality(part) > 1 THEN AMBIGUOUS
      ELSE CHOOSE x \in part : TRUE

\* visible_short_page(who, name): short_page, without the players who may
\* not see
visible_short_page(who, name) ==
  LET target == short_page(name)
  IN  IF who = 4 \/ ~GoodObject(target) THEN target
      ELSE IF target = 8 THEN NOTHING
      ELSE target

\* match_player(who, name, partial)
match_player(who, name, partial) ==
  LET n1 == IF name # <<>> /\ name[1] = "*" THEN Drop(name, 1) ELSE name
      n2 == SkipSpaces(n1)
      m  == lookup_player(n2)
  IN  IF m # NOTHING THEN m
      ELSE IF GoodObject(who) /\ partial THEN visible_short_page(who, n2)
      ELSE NOTHING

-----------------------------------------------------------------------------
(* The tests of a candidate.                                               *)

\* MATCH_TYPE that never reads MAT_TYPE
MATCH_TYPE_lax(m) ==
  IF Typeof(m.match) \in m.type THEN 1 ELSE -1

\* MATCH_TYPE: 1 when the type fits, 0 when it had to, -1 otherwise
MATCH_TYPE(m) ==
  IF Typeof(m.match) \in m.type THEN 1
  ELSE IF "MAT_TYPE" \in m.flags THEN 0
  ELSE -1

\* MATCH_CONTROLS
MATCH_CONTROLS(m) ==
  "MAT_CONTROL" \notin m.flags \/ controls(m.who, m.match)

\* MATCH_CONTENTS; Location() of an invalid mc->match reads outside the
\* database, and oob stands for what the comparison then yields
MATCH_CONTENTS(m, oob) ==
  \/ "MAT_CONTENTS" \notin m.flags
  \/ IF GoodObject(m.match) THEN Location(m.match) = m.where ELSE oob

\* choose_thing() that returns the later of two invalid references
choose_thing_second(who, preferred_type, flags, thing1, thing2) ==
  IF ~GoodObject(thing1) THEN thing2
  ELSE IF ~GoodObject(thing2) THEN thing1
  ELSE IF preferred_type # NOTYPE /\ Typeof(thing1) \in preferred_type
          /\ Typeof(thing2) \notin preferred_type
  THEN thing1
  ELSE IF preferred_type # NOTYPE /\ Typeof(thing1) \notin preferred_type
          /\ Typeof(thing2) \in preferred_type
  THEN thing2
  ELSE IF "MAT_CHECK_KEYS" \in flags /\ ~could_doit(who, thing1)
          /\ could_doit(who, thing2)
  THEN thing2
  ELSE IF "MAT_CHECK_KEYS" \in flags /\ could_doit(who, thing1)
          /\ ~could_doit(who, thing2)
  THEN thing1
  ELSE thing2

\* choose_thing() that asks the lock before the type
choose_thing_keys_first(who, preferred_type, flags, thing1, thing2) ==
  IF ~GoodObject(thing1) /\ ~GoodObject(thing2)
  THEN (IF thing1 = NOTHING THEN thing2 ELSE thing1)
  ELSE IF ~GoodObject(thing1) THEN thing2
  ELSE IF ~GoodObject(thing2) THEN thing1
  ELSE IF "MAT_CHECK_KEYS" \in flags /\ ~could_doit(who, thing1)
          /\ could_doit(who, thing2)
  THEN thing2
  ELSE IF "MAT_CHECK_KEYS" \in flags /\ could_doit(who, thing1)
          /\ ~could_doit(who, thing2)
  THEN thing1
  ELSE IF preferred_type # NOTYPE /\ Typeof(thing1) \in preferred_type
          /\ Typeof(thing2) \notin preferred_type
  THEN thing1
  ELSE IF preferred_type # NOTYPE /\ Typeof(thing1) \notin preferred_type
          /\ Typeof(thing2) \in preferred_type
  THEN thing2
  ELSE thing2

\* choose_thing(who, preferred_type, flags, thing1, thing2)
choose_thing(who, preferred_type, flags, thing1, thing2) ==
  IF ~GoodObject(thing1) /\ ~GoodObject(thing2)
  THEN (IF thing1 = NOTHING THEN thing2 ELSE thing1)
  ELSE IF ~GoodObject(thing1) THEN thing2
  ELSE IF ~GoodObject(thing2) THEN thing1
  ELSE IF preferred_type # NOTYPE /\ Typeof(thing1) \in preferred_type
          /\ Typeof(thing2) \notin preferred_type
  THEN thing1
  ELSE IF preferred_type # NOTYPE /\ Typeof(thing1) \notin preferred_type
          /\ Typeof(thing2) \in preferred_type
  THEN thing2
  ELSE IF "MAT_CHECK_KEYS" \in flags /\ ~could_doit(who, thing1)
          /\ could_doit(who, thing2)
  THEN thing2
  ELSE IF "MAT_CHECK_KEYS" \in flags /\ could_doit(who, thing1)
          /\ ~could_doit(who, thing2)
  THEN thing1
  ELSE thing2

\* BEST_MATCH
BEST_MATCH(m) == choose_thing(m.who, m.type, m.flags, m.bestmatch, m.match)

\* matched() that takes every exact match for the first exact match
matched_always_reset(full, m) ==
  IF ~MATCH_CONTROLS(m) THEN [m EXCEPT !.nocontrol = 1]
  ELSE IF m.final = 0
  THEN LET b == BEST_MATCH(m)
           c == IF full THEN 1 ELSE m.curr + 1
           r == IF full THEN 0 ELSE m.right_type
       IN  IF b # m.match THEN [m EXCEPT !.bestmatch = b]
           ELSE [m EXCEPT !.bestmatch = b,
                          !.exact = IF full THEN 1 ELSE m.exact,
                          !.curr = c,
                          !.right_type =
                             IF m.type # NOTYPE /\ Typeof(b) \in m.type
                             THEN r + 1 ELSE r]
  ELSE IF m.curr + 1 = m.final
  THEN [m EXCEPT !.curr = m.curr + 1, !.bestmatch = m.match, !.done = 1]
  ELSE [m EXCEPT !.curr = m.curr + 1]

\* matched() that sets the latch and goes on without the return
matched_no_return(full, m) ==
  LET l == IF MATCH_CONTROLS(m) THEN m ELSE [m EXCEPT !.nocontrol = 1]
  IN  IF l.final = 0
      THEN LET b == BEST_MATCH(l)
               c == IF full /\ l.exact = 0 THEN 1 ELSE l.curr + 1
               r == IF full /\ l.exact = 0 THEN 0 ELSE l.right_type
           IN  IF b # l.match THEN [l EXCEPT !.bestmatch = b]
               ELSE [l EXCEPT !.bestmatch = b,
                              !.exact = IF full THEN 1 ELSE l.exact,
                              !.curr = c,
                              !.right_type =
                                 IF l.type # NOTYPE /\ Typeof(b) \in l.type
                                 THEN r + 1 ELSE r]
      ELSE IF l.curr + 1 = l.final
      THEN [l EXCEPT !.curr = l.curr + 1, !.bestmatch = l.match, !.done = 1]
      ELSE [l EXCEPT !.curr = l.curr + 1]

\* matched() that takes the new match for the best one without asking
\* choose_thing
matched_last_wins(full, m) ==
  IF ~MATCH_CONTROLS(m) THEN [m EXCEPT !.nocontrol = 1]
  ELSE IF m.final = 0
  THEN LET b == m.match
           c == IF full /\ m.exact = 0 THEN 1 ELSE m.curr + 1
           r == IF full /\ m.exact = 0 THEN 0 ELSE m.right_type
       IN  [m EXCEPT !.bestmatch = b,
                     !.exact = IF full THEN 1 ELSE m.exact,
                     !.curr = c,
                     !.right_type =
                        IF m.type # NOTYPE /\ Typeof(b) \in m.type
                        THEN r + 1 ELSE r]
  ELSE IF m.curr + 1 = m.final
  THEN [m EXCEPT !.curr = m.curr + 1, !.bestmatch = m.match, !.done = 1]
  ELSE [m EXCEPT !.curr = m.curr + 1]

\* matched() that counts the match before it asks choose_thing, so that the
\* loser of the comparison is counted too
matched_counts_loser(full, m) ==
  IF ~MATCH_CONTROLS(m) THEN [m EXCEPT !.nocontrol = 1]
  ELSE IF m.final = 0
  THEN LET b == BEST_MATCH(m)
           c == IF full /\ m.exact = 0 THEN 1 ELSE m.curr + 1
           r == IF full /\ m.exact = 0 THEN 0 ELSE m.right_type
       IN  IF b # m.match THEN [m EXCEPT !.bestmatch = b, !.curr = m.curr + 1]
           ELSE [m EXCEPT !.bestmatch = b,
                          !.exact = IF full THEN 1 ELSE m.exact,
                          !.curr = c,
                          !.right_type =
                             IF m.type # NOTYPE /\ Typeof(b) \in m.type
                             THEN r + 1 ELSE r]
  ELSE IF m.curr + 1 = m.final
  THEN [m EXCEPT !.curr = m.curr + 1, !.bestmatch = m.match, !.done = 1]
  ELSE [m EXCEPT !.curr = m.curr + 1]

\* matched(full, mc): mc as the call leaves it; the call returns 1 exactly
\* when it sets mc->done
matched(full, m) ==
  IF ~MATCH_CONTROLS(m) THEN [m EXCEPT !.nocontrol = 1]
  ELSE IF m.final = 0
  THEN LET b == BEST_MATCH(m)
           c == IF full /\ m.exact = 0 THEN 1 ELSE m.curr + 1
           r == IF full /\ m.exact = 0 THEN 0 ELSE m.right_type
       IN  IF b # m.match THEN [m EXCEPT !.bestmatch = b]
           ELSE [m EXCEPT !.bestmatch = b,
                          !.exact = IF full THEN 1 ELSE m.exact,
                          !.curr = c,
                          !.right_type =
                             IF m.type # NOTYPE /\ Typeof(b) \in m.type
                             THEN r + 1 ELSE r]
  ELSE IF m.curr + 1 = m.final
  THEN [m EXCEPT !.curr = m.curr + 1, !.bestmatch = m.match, !.done = 1]
  ELSE [m EXCEPT !.curr = m.curr + 1]

\* the exact-name test of match_obj_list and match_attr_helper
ExactName(m) ==
  \/ match_aliases(m.match, m.name)
  \/ (~IsExit(m.match) /\ strcaseeq(Name(m.match), m.name))

\* PartialName() that does not look at the exact latch
PartialName_after_exact(m) ==
  /\ "MAT_EXACT" \notin m.flags
  /\ ~IsExit(m.match)
  /\ string_match(Name(m.match), m.name)

\* PartialName() that does not look at MAT_EXACT
PartialName_loose(m) ==
  /\ (m.exact = 0 \/ ~GoodObject(m.bestmatch))
  /\ ~IsExit(m.match)
  /\ string_match(Name(m.match), m.name)

\* the partial-name test of match_obj_list and match_attr_helper
PartialName(m) ==
  /\ "MAT_EXACT" \notin m.flags
  /\ (m.exact = 0 \/ ~GoodObject(m.bestmatch))
  /\ ~IsExit(m.match)
  /\ string_match(Name(m.match), m.name)

\* the branch the candidate mc->match takes in match_obj_list and
\* match_attr_helper
Branch(m) ==
  IF MATCH_TYPE(m) = 0 THEN "type"
  ELSE IF m.match = m.abs THEN "abs"
  ELSE IF ~can_interact(m.match, m.who) THEN "interact"
  ELSE IF ExactName(m) THEN "exact"
  ELSE IF PartialName(m) THEN "partial"
  ELSE "none"

\* one candidate of match_obj_list or match_attr_helper: mc as it leaves it
Candidate(m) ==
  CASE Branch(m) \in {"abs", "exact"} -> matched(TRUE, m)
    [] Branch(m) = "partial" -> matched(FALSE, m)
    [] OTHER -> m

-----------------------------------------------------------------------------
(* match_result_internal().                                                *)

goodwhere == RealGoodObject(call.where)

\* loc: the location of 'where'
loc ==
  IF ~goodwhere THEN NOTHING
  ELSE IF IsRoom(call.where) THEN call.where
  ELSE IF IsExit(call.where) THEN Source(call.where)
  ELSE Location(call.where)

\* the context as the assignments at the head of the call leave it
NewContext(c) ==
  [match |-> NOTHING, bestmatch |-> NOTHING, abs |-> parse_objid(c.xname),
   who |-> c.who, where |-> c.where, flags |-> c.flags, type |-> c.type,
   final |-> 0, curr |-> 0, nocontrol |-> 0, right_type |-> 0, exact |-> 0,
   done |-> 0, name |-> <<>>]

\* no second call is in progress
NoPeer == [phase |-> "none"]

\* no call of npc_findpath is in progress
NoFind == [phase |-> "none"]

\* the messages notify() is given
msg_cant_see   == "I can't see that here."
msg_ambiguous  == "I don't know which one you mean!"
msg_permission == "Permission denied."

\* the gate of the player and dbref shortcuts: near enough, or controlled
NearGate(m) ==
  \/ "MAT_NEAR" \notin m.flags
  \/ Long_Fingers(m.who)
  \/ nearby(m.who, m.match)
  \/ controls(m.who, m.match)

\* exits may be matched: (type & TYPE_EXIT) || !(flags & MAT_TYPE)
ExitsWanted(m) == "EXIT" \in m.type \/ "MAT_TYPE" \notin m.flags

\* the condition under which the search loop enumerates its i-th pool
PoolEnabled(i, m) ==
  CASE i \in {1, 2} ->
         goodwhere /\ m.flags \cap {"MAT_POSSESSION", "MAT_REMOTE_CONTENTS"} # {}
    [] i \in {3, 4} ->
         /\ GoodObject(loc) /\ "MAT_NEIGHBOR" \in m.flags
         /\ "MAT_CONTENTS" \notin m.flags /\ loc # m.where
    [] i = 5 ->
         /\ ExitsWanted(m)
         /\ GoodObject(loc) /\ IsRoom(loc) /\ "MAT_EXIT" \in m.flags
         /\ "MAT_REMOTES" \in m.flags
         /\ m.flags \cap {"MAT_NEAR", "MAT_CONTENTS"} = {}
         /\ GoodObject(Zone(loc)) /\ IsRoom(Zone(loc))
    [] i = 6 ->
         /\ ExitsWanted(m)
         /\ GoodObject(loc) /\ IsRoom(loc) /\ "MAT_EXIT" \in m.flags
         /\ "MAT_GLOBAL" \in m.flags
         /\ m.flags \cap {"MAT_NEAR", "MAT_CONTENTS"} = {}
    [] i = 7 ->
         /\ ExitsWanted(m)
         /\ GoodObject(loc) /\ IsRoom(loc) /\ "MAT_EXIT" \in m.flags
    [] i = 8 ->
         "MAT_CONTAINER" \in m.flags /\ "MAT_CONTENTS" \notin m.flags /\ goodwhere
    [] i = 9 ->
         /\ ExitsWanted(m)
         /\ "MAT_CARRIED_EXIT" \in m.flags /\ goodwhere /\ IsRoom(m.where)
         /\ (loc # m.where \/ "MAT_EXIT" \notin m.flags)

\* PoolStart() that takes the contents of the location before the contents
\* of 'where'
PoolStart_swapped(i, m) ==
  CASE i = 1 -> Contents(loc)
    [] i = 3 -> Contents(m.where)
    [] i = 5 -> Exits(Zone(loc))
    [] i = 6 -> Exits(MASTER_ROOM)
    [] i = 7 -> Exits(loc)
    [] i = 8 -> loc
    [] i = 9 -> Exits(m.where)

\* the object MATCH_LIST starts the i-th pool at
PoolStart(i, m) ==
  CASE i = 1 -> Contents(m.where)
    [] i = 3 -> Contents(loc)
    [] i = 5 -> Exits(Zone(loc))
    [] i = 6 -> Exits(MASTER_ROOM)
    [] i = 7 -> Exits(loc)
    [] i = 8 -> loc
    [] i = 9 -> Exits(m.where)

\* the object MATCH_GENERIC reads the attributes of
PoolContainer(i, m) == IF i = 2 THEN m.where ELSE loc

\* the search loop from its i-th pool on: the first pool that has a
\* candidate, or the end of the loop
RECURSIVE Enter(_, _, _)
Enter(i, m, vis) ==
  IF i > 9 \/ m.done = 1
  THEN [pc |-> "classify", pool |-> 0, mc |-> m, attrs |-> <<>>, pools |-> vis]
  ELSE IF ~PoolEnabled(i, m) THEN Enter(i + 1, m, vis)
  ELSE IF i \in {2, 4}
  THEN IF GenericAttrs(PoolContainer(i, m)) = <<>>
       THEN Enter(i + 1, m, Append(vis, i))
       ELSE [pc |-> "search", pool |-> i, mc |-> m,
             attrs |-> GenericAttrs(PoolContainer(i, m)),
             pools |-> Append(vis, i)]
  ELSE IF ~GoodObject(PoolStart(i, m))
       THEN Enter(i + 1, [m EXCEPT !.match = PoolStart(i, m)], Append(vis, i))
       ELSE [pc |-> "search", pool |-> i,
             mc |-> [m EXCEPT !.match = PoolStart(i, m)],
             attrs |-> <<>>, pools |-> Append(vis, i)]

\* Classify() that marks the ambiguous match with a reference below
\* AMBIGUOUS
Classify_below(m) ==
  IF ~GoodObject(m.bestmatch) /\ m.final # 0 THEN NOTHING
  ELSE IF m.final = 0 /\ m.curr > 1 /\ m.right_type # 1
          /\ "MAT_LAST" \notin m.flags
  THEN AMBIGUOUS - 1
  ELSE m.bestmatch

\* the result the call settles on once the loop has ended
Classify(m) ==
  IF ~GoodObject(m.bestmatch) /\ m.final # 0 THEN NOTHING
  ELSE IF m.final = 0 /\ m.curr > 1 /\ m.right_type # 1
          /\ "MAT_LAST" \notin m.flags
  THEN AMBIGUOUS
  ELSE m.bestmatch

\* FailureNotice() that looks at the latch before it looks at AMBIGUOUS
FailureNotice_latch_first(m, best) ==
  IF ~GoodObject(best) /\ "MAT_NOISY" \in m.flags /\ GoodObject(m.who)
  THEN IF m.nocontrol = 1 THEN <<msg_permission>>
       ELSE IF best = AMBIGUOUS THEN <<msg_ambiguous>>
       ELSE <<msg_cant_see>>
  ELSE <<>>

\* the messages a call that ends with best sends
FailureNotice(m, best) ==
  IF ~GoodObject(best) /\ "MAT_NOISY" \in m.flags /\ GoodObject(m.who)
  THEN IF best = AMBIGUOUS THEN <<msg_ambiguous>>
       ELSE IF m.nocontrol = 1 THEN <<msg_permission>>
       ELSE <<msg_cant_see>>
  ELSE <<>>

\* the call returns value at the return statement of stage pc, having sent
\* the notices
Return(value, notices) ==
  /\ pc' = "done"
  /\ result' = value
  /\ via' = pc
  /\ msgs' = msgs \o notices

\* Begin without the test of 'where'
Begin_unguarded ==
  /\ pc = "start"
  /\ pc' = "me"
  /\ UNCHANGED <<npc, peer, rev, call, mc, pool, attrs, pools, seen, result, via, msgs>>

\* lines 490-497: 'where' must be valid for a nearby or contents match
Begin ==
  /\ pc = "start"
  /\ IF call.flags \cap {"MAT_NEAR", "MAT_CONTENTS"} # {} /\ ~goodwhere
     THEN Return(NOTHING,
                 IF "MAT_NOISY" \in call.flags /\ GoodObject(call.who)
                 THEN <<msg_cant_see>> ELSE <<>>)
     ELSE pc' = "me" /\ UNCHANGED <<result, via, msgs>>
  /\ UNCHANGED <<npc, peer, rev, call, mc, pool, attrs, pools, seen>>

\* Shortcut() that gives up when what it found is not controlled
Shortcut_abort(m, found, next) ==
  IF found /\ MATCH_CONTROLS(m)
  THEN Return(m.match, <<>>) /\ mc' = m
  ELSE IF found
  THEN Return(NOTHING, <<>>) /\ mc' = [m EXCEPT !.nocontrol = 1]
  ELSE /\ mc' = m
       /\ pc' = next
       /\ UNCHANGED <<result, via, msgs>>

\* a shortcut that found mc->match: return it when it is controlled, set
\* the latch and go on to the next stage otherwise
Shortcut(m, found, next) ==
  IF found /\ MATCH_CONTROLS(m)
  THEN Return(m.match, <<>>) /\ mc' = m
  ELSE /\ mc' = IF found THEN [m EXCEPT !.nocontrol = 1] ELSE m
       /\ pc' = next
       /\ UNCHANGED <<result, via, msgs>>

\* lines 499-508: match "me"
MatchMe ==
  /\ pc = "me"
  /\ LET m == [mc EXCEPT !.match = call.where]
     IN  Shortcut(m,
                  /\ goodwhere
                  /\ MATCH_TYPE(m) # 0
                  /\ "MAT_ME" \in call.flags
                  /\ "MAT_CONTENTS" \notin call.flags
                  /\ strcaseeq(call.xname, <<"m","e">>),
                  "here")
  /\ UNCHANGED <<npc, peer, rev, call, pool, attrs, pools, seen>>

\* lines 510-519: match "here"
MatchHere ==
  /\ pc = "here"
  /\ LET m == [mc EXCEPT !.match =
                 IF goodwhere /\ ~IsRoom(call.where)
                 THEN Location(call.where) ELSE NOTHING]
     IN  Shortcut(m,
                  /\ "MAT_HERE" \in call.flags
                  /\ "MAT_CONTENTS" \notin call.flags
                  /\ strcaseeq(call.xname, <<"h","e","r","e">>)
                  /\ GoodObject(m.match)
                  /\ MATCH_TYPE(m) # 0,
                  "player")
  /\ UNCHANGED <<npc, peer, rev, call, pool, attrs, pools, seen>>

\* the player shortcut is tried
PlayerWanted ==
  /\ \/ "MAT_PMATCH" \in call.flags
     \/ ("MAT_PLAYER" \in call.flags /\ call.xname # <<>> /\ call.xname[1] = "*")
  /\ ("PLAYER" \in call.type \/ "MAT_TYPE" \notin call.flags)

\* lines 521-540: match *<player>, or <player>
MatchPlayer ==
  /\ pc = "player"
  /\ IF PlayerWanted
     THEN LET m == [mc EXCEPT !.match =
                      match_player(call.who, call.xname,
                                   "MAT_EXACT" \notin call.flags)]
          IN  \E oob \in IF "MAT_CONTENTS" \in m.flags /\ ~GoodObject(m.match)
                         THEN BOOLEAN ELSE {FALSE} :
                IF MATCH_CONTENTS(m, oob)
                THEN IF GoodObject(m.match)
                     THEN Shortcut(m, NearGate(m), "abs")
                     ELSE Shortcut([m EXCEPT !.bestmatch = BEST_MATCH(m)],
                                   FALSE, "abs")
                ELSE Shortcut(m, FALSE, "abs")
     ELSE Shortcut(mc, FALSE, "abs")
  /\ UNCHANGED <<npc, peer, rev, call, pool, attrs, pools, seen>>

\* lines 542-555: dbref match
MatchAbs ==
  /\ pc = "abs"
  /\ LET m == [mc EXCEPT !.match = mc.abs]
     IN  Shortcut(m,
                  /\ RealGoodObject(m.match)
                  /\ "MAT_ABSOLUTE" \in call.flags
                  /\ MATCH_TYPE(m) # 0
                  /\ MATCH_CONTENTS(m, FALSE)
                  /\ NearGate(m),
                  "parse")
  /\ UNCHANGED <<npc, peer, rev, call, pool, attrs, pools, seen>>

\* lines 557-566: the adjective phrase is parsed and the search loop entered
ParseEnglish ==
  /\ pc = "parse"
  /\ LET e == IF "MAT_ENGLISH" \in call.flags
              THEN parse_english(call.xname, call.flags)
              ELSE [count |-> 0, name |-> call.xname, flags |-> call.flags]
         m == [mc EXCEPT !.final = e.count, !.name = e.name, !.flags = e.flags]
         n == Enter(1, m, <<>>)
     IN  /\ mc' = n.mc
         /\ pc' = n.pc
         /\ pool' = n.pool
         /\ attrs' = n.attrs
         /\ pools' = n.pools
  /\ UNCHANGED <<npc, peer, rev, call, seen, result, via, msgs>>

\* what the log keeps of a candidate
Seen(m, p, branch) ==
  [obj |-> m.match, pool |-> p, branch |-> branch, ctl |-> MATCH_CONTROLS(m)]

\* lines 326-354: one iteration of DOLIST in match_obj_list, and the way to
\* the next candidate
MatchObj ==
  /\ pc = "search"
  /\ pool \in {1, 3, 5, 6, 7, 8, 9}
  /\ LET m == Candidate(mc)
         n == IF m.done = 1 THEN Enter(pool + 1, m, pools)
              ELSE IF GoodObject(NextObj(mc.match))
              THEN [pc |-> "search", pool |-> pool,
                    mc |-> [m EXCEPT !.match = NextObj(mc.match)],
                    attrs |-> <<>>, pools |-> pools]
              ELSE Enter(pool + 1, [m EXCEPT !.match = NextObj(mc.match)], pools)
     IN  /\ mc' = n.mc
         /\ pc' = n.pc
         /\ pool' = n.pool
         /\ attrs' = n.attrs
         /\ pools' = n.pools
         /\ seen' = Append(seen, Seen(mc, pool, Branch(mc)))
  /\ UNCHANGED <<npc, peer, rev, call, result, via, msgs>>

\* the attribute names a GENERIC object with a positive count
ProxyValid(a) ==
  RealGoodObject(a.obj) /\ IsGeneric(a.obj) /\ a.num > 0

\* lines 255-303: match_attr_helper on the next GENERIC` attribute, and the
\* way to the next candidate
MatchAttr ==
  /\ pc = "search"
  /\ pool \in {2, 4}
  /\ LET a  == Head(attrs)
         m0 == IF ProxyValid(a) THEN [mc EXCEPT !.match = a.obj] ELSE mc
         m  == IF ProxyValid(a) THEN Candidate(m0) ELSE mc
         n  == IF m.done = 1 \/ Tail(attrs) = <<>>
               THEN Enter(pool + 1, m, pools)
               ELSE [pc |-> "search", pool |-> pool, mc |-> m,
                     attrs |-> Tail(attrs), pools |-> pools]
     IN  /\ mc' = n.mc
         /\ pc' = n.pc
         /\ pool' = n.pool
         /\ attrs' = n.attrs
         /\ pools' = n.pools
         /\ seen' = Append(seen,
                           IF ProxyValid(a) THEN Seen(m0, pool, Branch(m0))
                           ELSE [obj |-> a.obj, pool |-> pool, branch |-> "skip",
                                 ctl |-> FALSE])
  /\ UNCHANGED <<npc, peer, rev, call, result, via, msgs>>

\* lines 601-625: the decision, the failure message and the return
Finish ==
  /\ pc = "classify"
  /\ mc' = [mc EXCEPT !.bestmatch = Classify(mc)]
  /\ Return(Classify(mc), FailureNotice(mc, Classify(mc)))
  /\ UNCHANGED <<npc, peer, rev, call, pool, attrs, pools, seen>>

Next ==
  \/ Begin
  \/ MatchMe
  \/ MatchHere
  \/ MatchPlayer
  \/ MatchAbs
  \/ ParseEnglish
  \/ MatchObj
  \/ MatchAttr
  \/ Finish

-----------------------------------------------------------------------------
(* The calls.                                                              *)

\* at most this many of the modifier flags are added to a scope
MaxMods == 2

\* the counts 1st .. MaxOrdinal-th are asked for
MaxOrdinal == 3

\* the scopes of a match: MAT_EVERYTHING, MAT_REMOTE with MAT_GLOBAL,
\* MAT_OBJ_CONTENTS, and two that reach the container and the carried exits
Scopes ==
  { {"MAT_ME", "MAT_HERE", "MAT_ABSOLUTE", "MAT_PLAYER", "MAT_NEIGHBOR",
     "MAT_POSSESSION", "MAT_EXIT"},
    {"MAT_ABSOLUTE", "MAT_PLAYER", "MAT_REMOTE_CONTENTS", "MAT_EXIT",
     "MAT_REMOTES", "MAT_GLOBAL"},
    {"MAT_POSSESSION", "MAT_PLAYER", "MAT_ABSOLUTE", "MAT_ENGLISH",
     "MAT_CONTENTS"},
    {"MAT_POSSESSION", "MAT_CARRIED_EXIT", "MAT_CONTAINER", "MAT_PMATCH",
     "MAT_HERE"},
    {"MAT_NEIGHBOR", "MAT_EXIT", "MAT_CARRIED_EXIT", "MAT_CONTAINER"} }

\* the flags that change how a scope is matched
ModFlags ==
  {"MAT_CONTROL", "MAT_TYPE", "MAT_EXACT", "MAT_CHECK_KEYS", "MAT_LAST",
   "MAT_CONTENTS", "MAT_NEAR", "MAT_ENGLISH", "MAT_NOISY"}

FlagSets ==
  {s \cup e : s \in Scopes,
              e \in {x \in SUBSET ModFlags : Cardinality(x) <= MaxMods}}

\* who matches, and relative to what: a player to itself, a wizard to that
\* player, the player to its room, to a thing inside a bag, the wizard to
\* the master room, the player to no object, and no object to the room
Anchors ==
  { <<3, 3>>, <<4, 3>>, <<3, 1>>, <<3, 7>>, <<4, 0>>, <<3, NOTHING>>,
    <<NOTHING, 1>> }

TypeFilters == { NOTYPE, {"THING"}, {"EXIT", "PLAYER"} }

\* the decimal digits of n
RECURSIVE Digits(_)
Digits(n) ==
  LET d == <<"0","1","2","3","4","5","6","7","8","9">>[(n % 10) + 1]
  IN  IF n < 10 THEN <<d>> ELSE Append(Digits(n \div 10), d)

\* the English suffix of the ordinal n
OrdinalSuffix(n) ==
  IF n % 100 \in {11, 12, 13} THEN s_th
  ELSE IF n % 10 = 1 THEN s_st
  ELSE IF n % 10 = 2 THEN s_nd
  ELSE IF n % 10 = 3 THEN s_rd
  ELSE s_th

\* "1st ", "2nd ", ...
OrdinalWord(n) == Digits(n) \o OrdinalSuffix(n) \o <<" ">>

\* names, and the texts of the shortcuts
PlainTexts ==
  { n_apple, <<"a","p","p">>, n_north, <<"m","e">>, <<"h","e","r","e">>,
    <<"#","9">>, <<"*","a","p">> }

\* adjective phrases
EnglishTexts ==
  { s_my \o n_apple, s_my \o n_north, s_toward \o n_north,
    s_toward \o n_apple, s_here \o n_apple, s_this_here \o n_apple }
  \cup { OrdinalWord(k) \o n : k \in 1..MaxOrdinal, n \in {n_apple, n_north} }

\* a phrase is only given to a match that parses phrases: any other match
\* takes it for a name, and no object has such a name
TextsFor(flags) ==
  IF "MAT_ENGLISH" \in flags THEN PlainTexts \cup EnglishTexts ELSE PlainTexts

Calls ==
  { [who |-> a[1], where |-> a[2], xname |-> x, type |-> t, flags |-> f] :
      a \in Anchors, t \in TypeFilters,
      f \in FlagSets, x \in PlainTexts \cup EnglishTexts }

Init ==
  /\ npc = NoFind
  /\ peer = NoPeer
  /\ rev \in BOOLEAN
  /\ call \in Calls
  /\ call.xname \in TextsFor(call.flags)
  /\ mc = NewContext(call)
  /\ pc = "start"
  /\ pool = 0
  /\ attrs = <<>>
  /\ pools = <<>>
  /\ seen = <<>>
  /\ result = NOTHING
  /\ via = "none"
  /\ msgs = <<>>

Spec == Init /\ [][Next]_vars

-----------------------------------------------------------------------------
(* parse_english() on its own: the phrases of a grammar of adjective, count *)
(* and noun, under every set of the scope flags the adjectives read.       *)

\* the counts 0 .. MaxNumber are written in front of a noun
MaxNumber == 23

\* the scope flags parse_english reads or clears
ParseFlags ==
  {"MAT_NEIGHBOR", "MAT_POSSESSION", "MAT_EXIT", "MAT_CARRIED_EXIT",
   "MAT_CONTAINER", "MAT_REMOTE_CONTENTS"}

Adjectives == {<<>>, s_my, s_me, s_here, s_this, s_this_here, s_toward}

Suffixes == {s_th, s_st, s_nd, s_rd, <<"T","H">>, <<"N","D">>}

\* numbers past a hundred that end in 11, 12 and 13
BeyondHundred == {111, 112, 113}

\* the numbers written in front of a noun
Numbers == (0..MaxNumber) \cup BeyondHundred

\* no count, or a number and a suffix, which may or may not agree
CountTokens ==
  {<<>>} \cup {Digits(n) \o x \o <<" ">> : n \in Numbers, x \in Suffixes}

Nouns == {n_apple, n_north}

ParseTexts == {a \o c \o n : a \in Adjectives, c \in CountTokens, n \in Nouns}

InitParse ==
  /\ npc = NoFind
  /\ peer = NoPeer
  /\ rev = FALSE
  /\ call \in [who : {3}, where : {3}, xname : ParseTexts, type : {NOTYPE},
               flags : {f \cup {"MAT_ENGLISH"} : f \in SUBSET ParseFlags}]
  /\ mc = NewContext(call)
  /\ pc = "phrase"
  /\ pool = 0
  /\ attrs = <<>>
  /\ pools = <<>>
  /\ seen = <<>>
  /\ result = NOTHING
  /\ via = "none"
  /\ msgs = <<>>

\* mc.final = parse_english(&mc.name, &mc.flags)
ApplyParse ==
  /\ pc = "phrase"
  /\ LET e == parse_english(call.xname, call.flags)
     IN  mc' = [mc EXCEPT !.final = e.count, !.name = e.name, !.flags = e.flags]
  /\ pc' = "parsed"
  /\ UNCHANGED <<npc, peer, rev, call, pool, attrs, pools, seen, result, via, msgs>>

NextParse == ApplyParse

SpecParse == InitParse /\ [][NextParse]_vars

-----------------------------------------------------------------------------
(* choose_thing() on its own: every pair of references, live or not, under *)
(* each requester, type filter and lock preference.                        *)

\* this many references below AMBIGUOUS, and as many above the last object
MaxInvalid == 2

\* the references handed to choose_thing: the objects, NOTHING, AMBIGUOUS
\* and the invalid references around them
Refs == (AMBIGUOUS - MaxInvalid) .. (Cardinality(Objects) - 1 + MaxInvalid)

InitChoose ==
  /\ npc = NoFind
  /\ peer = NoPeer
  /\ rev = FALSE
  /\ call \in [who : {3, 4}, where : {3}, xname : {n_apple},
               type : TypeFilters, flags : {{}, {"MAT_CHECK_KEYS"}}]
  /\ \E a, b \in Refs :
       mc = [NewContext(call) EXCEPT !.bestmatch = a, !.match = b]
  /\ pc = "choose"
  /\ pool = 0
  /\ attrs = <<>>
  /\ pools = <<>>
  /\ seen = <<>>
  /\ result = NOTHING
  /\ via = "none"
  /\ msgs = <<>>

\* result = choose_thing(who, preferred_type, flags, thing1, thing2)
ApplyChoose ==
  /\ pc = "choose"
  /\ result' = choose_thing(mc.who, mc.type, mc.flags, mc.bestmatch, mc.match)
  /\ pc' = "chosen"
  /\ UNCHANGED <<npc, peer, rev, call, mc, pool, attrs, pools, seen, via, msgs>>

NextChoose == ApplyChoose

SpecChoose == InitChoose /\ [][NextChoose]_vars

-----------------------------------------------------------------------------
(* Two calls of match_result_internal over one database. Each call has its *)
(* own struct match_context and its own copy of the text: both are locals  *)
(* of the call. Each call first runs alone, then the two are interleaved   *)
(* step by step; the call that is not running keeps its locals in          *)
(* peer.other.                                                             *)

\* MAT_EVERYTHING, with and without MAT_CONTROL, and a scope with the
\* container; each noisy and with the adjective phrases
PairFlags ==
  { {"MAT_ME", "MAT_HERE", "MAT_ABSOLUTE", "MAT_PLAYER", "MAT_NEIGHBOR",
     "MAT_POSSESSION", "MAT_EXIT", "MAT_ENGLISH", "MAT_NOISY"},
    {"MAT_ME", "MAT_HERE", "MAT_ABSOLUTE", "MAT_PLAYER", "MAT_NEIGHBOR",
     "MAT_POSSESSION", "MAT_EXIT", "MAT_ENGLISH", "MAT_NOISY", "MAT_CONTROL"},
    {"MAT_POSSESSION", "MAT_CARRIED_EXIT", "MAT_CONTAINER", "MAT_PMATCH",
     "MAT_HERE", "MAT_ENGLISH", "MAT_NOISY"} }

PairCalls ==
  { [who |-> a[1], where |-> a[2], xname |-> x, type |-> NOTYPE, flags |-> f] :
      a \in {<<3, 3>>, <<4, 0>>}, f \in PairFlags,
      x \in {n_apple, n_north, OrdinalWord(MaxOrdinal) \o n_apple} }

\* the locals of the running call
Local ==
  [call |-> call, mc |-> mc, pc |-> pc, pool |-> pool, attrs |-> attrs,
   pools |-> pools, seen |-> seen, result |-> result, via |-> via,
   msgs |-> msgs]

\* the locals of a call that has not yet started
Fresh(c) ==
  [call |-> c, mc |-> NewContext(c), pc |-> "start", pool |-> 0,
   attrs |-> <<>>, pools |-> <<>>, seen |-> <<>>, result |-> NOTHING,
   via |-> "none", msgs |-> <<>>]

\* the call with the locals l runs next
Resume(l) ==
  /\ call' = l.call
  /\ mc' = l.mc
  /\ pc' = l.pc
  /\ pool' = l.pool
  /\ attrs' = l.attrs
  /\ pools' = l.pools
  /\ seen' = l.seen
  /\ result' = l.result
  /\ via' = l.via
  /\ msgs' = l.msgs

\* what a call hands back: the value returned and the messages sent
Outcome(l) == [result |-> l.result, msgs |-> l.msgs]

\* the call is inside the search loop
Running(l) == l.pc = "search"

InitPair ==
  /\ npc = NoFind
  /\ rev \in BOOLEAN
  /\ call \in PairCalls
  /\ \E c \in PairCalls :
       peer = [phase |-> "alone", turn |-> 1, alone |-> <<>>,
               mixed |-> FALSE, other |-> Fresh(c)]
  /\ mc = NewContext(call)
  /\ pc = "start"
  /\ pool = 0
  /\ attrs = <<>>
  /\ pools = <<>>
  /\ seen = <<>>
  /\ result = NOTHING
  /\ via = "none"
  /\ msgs = <<>>

\* a call that ran alone has returned: its outcome is kept; after the
\* first call the second runs alone, after the second both start again to
\* be interleaved
Handover ==
  /\ peer.phase = "alone"
  /\ pc = "done"
  /\ IF peer.turn = 1
     THEN /\ peer' = [peer EXCEPT !.turn = 2,
                                  !.alone = <<Outcome(Local)>>,
                                  !.other = Fresh(call)]
          /\ Resume(peer.other)
     ELSE /\ peer' = [peer EXCEPT !.phase = "paired",
                                  !.alone = Append(peer.alone, Outcome(Local))]
          /\ Resume(Fresh(call))
  /\ UNCHANGED <<npc, rev>>

\* Switch() with the no-control latch in one place for all calls, as a
\* static variable would be
Switch_shared_latch ==
  /\ peer.phase = "paired"
  /\ peer' = [peer EXCEPT !.turn = 3 - peer.turn,
                          !.other = Local,
                          !.mixed = peer.mixed
                                    \/ (Running(Local) /\ Running(peer.other))]
  /\ Resume([peer.other EXCEPT !.mc = [@ EXCEPT !.nocontrol = mc.nocontrol]])
  /\ UNCHANGED <<npc, rev>>

\* the running call is suspended between two of its steps and the other
\* call goes on with its own locals
Switch ==
  /\ peer.phase = "paired"
  /\ peer' = [peer EXCEPT !.turn = 3 - peer.turn,
                          !.other = Local,
                          !.mixed = peer.mixed
                                    \/ (Running(Local) /\ Running(peer.other))]
  /\ Resume(peer.other)
  /\ UNCHANGED <<npc, rev>>

NextPair ==
  \/ Next
  \/ Handover
  \/ Switch

SpecPair == InitPair /\ [][NextPair]_vars

-----------------------------------------------------------------------------
(* npc_findpath(): the breadth-first search for a path of exits, on every  *)
(* graph of five places and five exits.                                    *)

\* the size of the frontier and visited arrays
NPC_MAX_NODES == 4

\* the places of the world: #0 .. #3 are rooms, #4 is a room or a thing
NpcPlaces == 0..4

\* the exits of the world
NpcExits == 5..9

\* the one who asks for the path
NpcPlayer == 10

\* RealGoodObject() in this world
NpcGood(x) == x \in 0..10

\* IsRoom() in this world
NpcIsRoom(x) == x \in NpcPlaces /\ (x # 4 \/ npc.room4)

\* Exits(room) and the Next() chain behind it, as a list
ExitsOfRoom(room) ==
  CASE room = 0 -> <<5, 6>>
    [] room = 1 -> <<7, 8>>
    [] room = 2 -> <<9>>
    [] OTHER -> <<>>

\* an exit leads to a place and is open, or leads to #3 and is either not
\* visible to the player or locked against the player
ExitKinds ==
  {[dest |-> d, see |-> TRUE, pass |-> TRUE] : d \in NpcPlaces}
  \cup {[dest |-> 3, see |-> FALSE, pass |-> TRUE],
        [dest |-> 3, see |-> TRUE, pass |-> FALSE]}

\* every exit leads to #3 and is open
DirectExits == [e \in NpcExits |-> [dest |-> 3, see |-> TRUE, pass |-> TRUE]]

\* the arguments <<player, start, stop>> the search is entered with
GoodArgs == {<<NpcPlayer, 0, 3>>, <<NpcPlayer, 1, 3>>}

\* the arguments one of the four tests at the head refuses
BadArgs ==
  {<<NpcPlayer, NOTHING, 3>>, <<NpcPlayer, 5, 3>>, <<NpcPlayer, 0, NOTHING>>,
   <<NpcPlayer, 0, 4>>, <<NpcPlayer, 0, 0>>, <<NOTHING, 0, 3>>}

\* the messages the call returns in place of a path
e_invalid_start ==
  <<"#","-","1"," ","I","N","V","A","L","I","D"," ","S","T","A","R","T">>

e_invalid_stop ==
  <<"#","-","1"," ","I","N","V","A","L","I","D"," ","S","T","O","P">>

e_same_location ==
  <<"#","-","1"," ","S","A","M","E"," ","L","O","C","A","T","I","O","N">>

e_invalid_player ==
  <<"#","-","1"," ","I","N","V","A","L","I","D"," ","P","L","A","Y","E",
  "R">>

e_visit_memory ==
  <<"#","-","1"," ","V","I","S","I","T"," ","M","E","M","O","R","Y"," ","E",
  "X","H","A","U","S","T","E","D">>

e_last_memory ==
  <<"#","-","1"," ","L","A","S","T"," ","M","E","M","O","R","Y"," ","E","X",
  "H","A","U","S","T","E","D">>

e_frontier_memory ==
  <<"#","-","1"," ","F","R","O","N","T","I","E","R"," ","M","E","M","O","R",
  "Y"," ","E","X","H","A","U","S","T","E","D">>

e_path_not_found ==
  <<"#","-","1"," ","P","A","T","H"," ","N","O","T"," ","F","O","U","N",
  "D">>

\* unparse_dbref(d): "#<d>"
unparse_dbref(d) == <<"#">> \o Digits(d)

\* Destination(thing)
NpcDestination(thing) == npc.exit[thing].dest

\* could_doit() that lets the player through every exit
npc_could_doit_open(player, thing) == TRUE

\* could_doit(player, thing, NULL): the player passes the lock of the exit
npc_could_doit(player, thing) == npc.exit[thing].pass

\* first_visible(player, list): the first exit of the list the player sees,
\* NOTHING when there is none
RECURSIVE first_visible(_)
first_visible(list) ==
  IF list = <<>> THEN NOTHING
  ELSE IF npc.exit[Head(list)].see THEN Head(list)
  ELSE first_visible(Tail(list))

\* the exits behind thing in the list of its room
RECURSIVE After(_, _)
After(thing, list) ==
  IF list = <<>> THEN <<>>
  ELSE IF Head(list) = thing THEN Tail(list)
  ELSE After(thing, Tail(list))

\* the step of DOLIST_VISIBLE from thing, an exit of room
next_visible(thing, room) == first_visible(After(thing, ExitsOfRoom(room)))

\* lines 112-129: dest is the room of a visited node or of a node of the
\* frontier that has not been popped
has_visited(dest) ==
  \/ \E i \in 1..Len(npc.visited) : npc.visited[i].loc = dest
  \/ \E i \in (npc.cur_frontier + 1)..Len(npc.frontier) :
       npc.frontier[i].loc = dest

\* lines 177-183: the exits from the node last back to the start, last first
RECURSIVE WalkBack(_)
WalkBack(last) ==
  IF npc.visited[last].ptr = 0 THEN <<>>
  ELSE <<npc.visited[last].dir>> \o WalkBack(npc.visited[last].ptr)

\* lines 186-193: the exits of the cache from its end to its head, each as
\* unparse_dbref writes it, a space between two of them
RECURSIVE PathString(_, _)
PathString(cache, i) ==
  IF i = 0 THEN <<>>
  ELSE (IF i = Len(cache) THEN <<>> ELSE <<" ">>)
       \o unparse_dbref(cache[i].dir) \o PathString(cache, i - 1)

InitFind ==
  /\ \E a \in GoodArgs \cup BadArgs :
       npc \in [phase : {"call"}, player : {a[1]}, start : {a[2]},
                stop : {a[3]}, room4 : BOOLEAN,
                exit : IF a \in GoodArgs THEN [NpcExits -> ExitKinds]
                       ELSE {DirectExits},
                frontier : {<<>>}, visited : {<<>>}, cur_frontier : {0},
                vp : {0}, thing : {NOTHING}, found_path : {0}, last : {0},
                buff : {<<>>}]
  /\ peer = NoPeer
  /\ rev = FALSE
  /\ call = [who |-> NOTHING, where |-> NOTHING, xname |-> <<>>,
             type |-> NOTYPE, flags |-> {}]
  /\ mc = NewContext(call)
  /\ pc = "findpath"
  /\ pool = 0
  /\ attrs = <<>>
  /\ pools = <<>>
  /\ seen = <<>>
  /\ result = NOTHING
  /\ via = "none"
  /\ msgs = <<>>

\* safe_str(text, buff, &bp); *bp = '\0'; return buff
FindReturn(text) ==
  /\ npc' = [npc EXCEPT !.buff = text]
  /\ pc' = "returned"

\* lines 35-78: the tests of the arguments, and the start on the frontier
FindBegin ==
  /\ pc = "findpath"
  /\ IF ~(NpcGood(npc.start) /\ NpcIsRoom(npc.start))
     THEN FindReturn(e_invalid_start)
     ELSE IF ~(NpcGood(npc.stop) /\ NpcIsRoom(npc.stop))
     THEN FindReturn(e_invalid_stop)
     ELSE IF npc.start = npc.stop
     THEN FindReturn(e_same_location)
     ELSE IF ~NpcGood(npc.player)
     THEN FindReturn(e_invalid_player)
     ELSE /\ npc' = [npc EXCEPT
                       !.frontier = <<[ptr |-> 0, dir |-> NOTHING,
                                       loc |-> npc.start]>>,
                       !.cur_frontier = 0, !.visited = <<>>, !.vp = 0,
                       !.found_path = 0, !.last = 0]
          /\ pc' = "loop"
  /\ UNCHANGED <<peer, rev, call, mc, pool, attrs, pools, seen, result, via, msgs>>

\* lines 81-102: the next node of the frontier is popped and put on the
\* visited list, and the walk of its exits begins
FindPop ==
  /\ pc = "loop"
  /\ IF npc.cur_frontier < Len(npc.frontier)
     THEN LET cur == npc.frontier[npc.cur_frontier + 1]
              thing == first_visible(ExitsOfRoom(cur.loc))
          IN  IF ~(NpcGood(cur.loc) /\ NpcIsRoom(cur.loc))
              THEN /\ npc' = [npc EXCEPT !.cur_frontier = @ + 1]
                   /\ pc' = "loop"
              ELSE IF Len(npc.visited) >= NPC_MAX_NODES
              THEN FindReturn(e_visit_memory)
              ELSE /\ npc' = [npc EXCEPT
                                !.cur_frontier = @ + 1,
                                !.visited = Append(@, [loc |-> cur.loc,
                                                       ptr |-> cur.ptr,
                                                       dir |-> cur.dir]),
                                !.vp = Len(npc.visited) + 1,
                                !.thing = thing]
                   /\ pc' = IF thing # NOTHING THEN "exits" ELSE "loop"
     ELSE /\ npc' = npc
          /\ pc' = "build"
  /\ UNCHANGED <<peer, rev, call, mc, pool, attrs, pools, seen, result, via, msgs>>

\* lines 103-170: one exit of the room of vp
FindExit ==
  /\ pc = "exits"
  /\ LET thing == npc.thing
         dest  == NpcDestination(thing)
         next  == next_visible(thing, npc.visited[npc.vp].loc)
         on    == IF next # NOTHING THEN "exits" ELSE "loop"
     IN  IF ~(NpcGood(dest) /\ NpcIsRoom(dest))
         THEN npc' = [npc EXCEPT !.thing = next] /\ pc' = on
         ELSE IF ~npc_could_doit(npc.player, thing)
         THEN npc' = [npc EXCEPT !.thing = next] /\ pc' = on
         ELSE IF has_visited(dest)
         THEN npc' = [npc EXCEPT !.thing = next] /\ pc' = on
         ELSE IF dest = npc.stop
         THEN IF Len(npc.visited) >= NPC_MAX_NODES
              THEN FindReturn(e_last_memory)
              ELSE /\ npc' = [npc EXCEPT
                                !.visited = Append(@, [loc |-> dest,
                                                       ptr |-> npc.vp,
                                                       dir |-> thing]),
                                !.last = Len(npc.visited) + 1,
                                !.found_path = 1]
                   /\ pc' = "build"
         ELSE IF Len(npc.frontier) >= NPC_MAX_NODES
         THEN FindReturn(e_frontier_memory)
         ELSE /\ npc' = [npc EXCEPT
                           !.frontier = Append(@, [loc |-> dest,
                                                   ptr |-> npc.vp,
                                                   dir |-> thing]),
                           !.thing = next]
              /\ pc' = on
  /\ UNCHANGED <<peer, rev, call, mc, pool, attrs, pools, seen, result, via, msgs>>

\* lines 174-204: the exits are read off the visited list from the last node
\* back, kept in the head of the frontier array, and written out from the
\* end of that cache to its head; or there is no path
FindBuild ==
  /\ pc = "build"
  /\ IF npc.found_path = 1
     THEN LET dirs  == WalkBack(npc.last)
              cache == [i \in 1..Len(dirs) |->
                          IF i <= Len(npc.frontier)
                          THEN [npc.frontier[i] EXCEPT !.dir = dirs[i]]
                          ELSE [ptr |-> 0, dir |-> dirs[i], loc |-> NOTHING]]
          IN  /\ npc' = [npc EXCEPT !.frontier = cache, !.vp = npc.last,
                                    !.buff = PathString(cache, Len(cache))]
              /\ pc' = "returned"
     ELSE FindReturn(e_path_not_found)
  /\ UNCHANGED <<peer, rev, call, mc, pool, attrs, pools, seen, result, via, msgs>>

NextFind ==
  \/ FindBegin
  \/ FindPop
  \/ FindExit
  \/ FindBuild

\* the call runs to its return: no step of it waits for anything
SpecFind == InitFind /\ [][NextFind]_vars /\ WF_vars(NextFind)

-----------------------------------------------------------------------------
(* What the claims speak of.                                               *)

\* the call has returned
Returned == pc = "done"

\* the call has returned from the end of the search loop
Searched == pc = "done" /\ via = "classify"

\* a logged candidate matched the name (or the dbref) and was controlled
Accepted(e) == e.branch \in {"abs", "exact", "partial"} /\ e.ctl

\* the accepted candidates of the log, in order
AcceptedSeen == SelectSeq(seen, Accepted)

\* the objects of a chain from x on, as DOLIST walks it
RECURSIVE ChainFrom(_)
ChainFrom(x) == IF GoodObject(x) THEN <<x>> \o ChainFrom(NextObj(x)) ELSE <<>>

\* the objects the valid GENERIC` attributes of x name, in order
RECURSIVE ProxiesOf(_)
ProxiesOf(as) ==
  IF as = <<>> THEN <<>>
  ELSE (IF ProxyValid(Head(as)) THEN <<Head(as).obj>> ELSE <<>>)
       \o ProxiesOf(Tail(as))

\* the candidates of the i-th pool, in order
PoolMembers(i, m) ==
  IF ~PoolEnabled(i, m) THEN <<>>
  ELSE IF i \in {2, 4} THEN ProxiesOf(GenericAttrs(PoolContainer(i, m)))
  ELSE ChainFrom(PoolStart(i, m))

\* the candidates of all pools, in the order of the search loop
Traversal(m) ==
  PoolMembers(1, m) \o PoolMembers(2, m) \o PoolMembers(3, m)
  \o PoolMembers(4, m) \o PoolMembers(5, m) \o PoolMembers(6, m)
  \o PoolMembers(7, m) \o PoolMembers(8, m) \o PoolMembers(9, m)

\* candidate x passes the type, interaction, name and control tests of a
\* match for the K-th object
OrdinalAccepts(m, x) ==
  LET mx == [m EXCEPT !.match = x, !.bestmatch = NOTHING]
  IN  Branch(mx) \in {"abs", "exact", "partial"} /\ MATCH_CONTROLS(mx)

\* the candidates a match for the K-th object counts, in order
OrdinalAccepted(m) == SelectSeq(Traversal(m), LAMBDA x : OrdinalAccepts(m, x))

\* the objects of a sequence, each where it first occurs
RECURSIVE Distinct(_)
Distinct(s) ==
  IF s = <<>> THEN <<>>
  ELSE LET d == Distinct(SubSeq(s, 1, Len(s) - 1))
       IN  IF \E i \in DOMAIN d : d[i] = s[Len(s)] THEN d
           ELSE Append(d, s[Len(s)])

\* the accepted candidates of the log that matched the whole name (or the
\* dbref), and those that matched a part of it
ExactSeen == SelectSeq(AcceptedSeen, LAMBDA e : e.branch \in {"exact", "abs"})
PartialSeen == SelectSeq(AcceptedSeen, LAMBDA e : e.branch = "partial")

\* the objects of a log
ObjectsOf(log) == {log[i].obj : i \in DOMAIN log}

\* x matches the residual name, but only a part of it
PartialOnly(x) ==
  LET mx == [mc EXCEPT !.match = x]
  IN  x # mc.abs /\ ~ExactName(mx) /\ string_match(Name(x), mc.name)

\* the type of x is one of the preferred types
RightType(x) == Typeof(x) \in mc.type

\* the accepted candidates are of one rank: all exact, or all partial
TieOnName == ExactSeen = <<>> \/ PartialSeen = <<>>

\* neither the preferred type nor the Basic lock tells two accepted
\* candidates apart
NoPreference ==
  /\ \/ mc.type = NOTYPE
     \/ \A x, y \in ObjectsOf(AcceptedSeen) : RightType(x) = RightType(y)
  /\ \/ "MAT_CHECK_KEYS" \notin mc.flags
     \/ \A x, y \in ObjectsOf(AcceptedSeen) :
          could_doit(mc.who, x) = could_doit(mc.who, y)

\* parse_english has returned
Parsed == pc = "parsed"

\* the text and the flags once the restriction adjectives are consumed
AfterAdjectives ==
  pe_toward(pe_possession(pe_neighbor([name |-> call.xname,
                                        flags |-> call.flags])))

\* the word the count is looked for in: the first word after the adjectives
CountWord ==
  LET n == SkipSpaces(AfterAdjectives.name)
  IN  IF IndexOf(n, " ") = 0 THEN <<>> ELSE SubSeq(n, 1, IndexOf(n, " ") - 1)

\* the suffix that agrees with n: "th" for 11, 12 and 13, else "st", "nd",
\* "rd" for a last digit of 1, 2, 3, else "th"
AgreeingSuffix(n) ==
  IF n \in {11, 12, 13} THEN s_th
  ELSE IF n % 10 = 1 THEN s_st
  ELSE IF n % 10 = 2 THEN s_nd
  ELSE IF n % 10 = 3 THEN s_rd
  ELSE s_th

\* w is a number from 1 on with the suffix that agrees with it
WellFormed(w) ==
  \E n \in Numbers \ {0} : strcaseeq(w, Digits(n) \o AgreeingSuffix(n))

\* the word in the place of the count starts with a digit and is no count
Malformed == CountWord # <<>> /\ isdigit(CountWord[1]) /\ ~WellFormed(CountWord)

-----------------------------------------------------------------------------
(* The claims.                                                             *)

\* C1: whatever the requester, the anchor, the text, the type filter, the
\* flags and the order of the chains, the value match_result_internal
\* returns is a live object, AMBIGUOUS or NOTHING and no other reference.
C1_ResultKind ==
  Returned => (GoodObject(result) \/ result \in {AMBIGUOUS, NOTHING})

\* C1 witness: a call returned AMBIGUOUS although the search counted at most
\* one candidate: the invalid reference came from the player lookup and
\* went through choose_thing.
C1_Witness ==
  Returned /\ result = AMBIGUOUS /\ mc.curr <= 1 /\ seen # <<>>

\* C2: in a search for no particular K-th match, when some enumerated
\* candidate passed the type, interaction and control tests and its name or
\* alias is the whole residual text, the result is never a live object that
\* matches the text only in part.
C2_ExactPrecedence ==
  (/\ Searched /\ mc.final = 0
   /\ \E i \in DOMAIN ExactSeen : ExactSeen[i].branch = "exact")
  => ~(GoodObject(result) /\ PartialOnly(result))

\* C3: when parse_english yields a count K >= 1, the result is the K-th
\* object, in the order of the search loop, that passes the type,
\* interaction, name and control tests, and NOTHING when fewer than K
\* objects pass; and bestmatch is set to a candidate at most once (only by
\* the step that ends the search).
C3_Ordinal ==
  /\ (Returned /\ mc.final >= 1) =>
       result = IF Len(Distinct(OrdinalAccepted(mc))) >= mc.final
                THEN Distinct(OrdinalAccepted(mc))[mc.final] ELSE NOTHING
  /\ (mc.final >= 1 /\ GoodObject(mc.bestmatch)) =>
       /\ mc.done = 1
       /\ pc \in {"classify", "done"}
       /\ mc.bestmatch = AcceptedSeen[Len(AcceptedSeen)].obj

\* C3, read over the enumeration: the result is the K-th accepted entry of
\* the enumeration, in which an object that two pools hold stands twice.
C3_OrdinalEnumerated ==
  /\ (Returned /\ mc.final >= 1) =>
       result = IF Len(OrdinalAccepted(mc)) >= mc.final
                THEN OrdinalAccepted(mc)[mc.final] ELSE NOTHING
  /\ (mc.final >= 1 /\ GoodObject(mc.bestmatch)) =>
       /\ mc.done = 1
       /\ pc \in {"classify", "done"}
       /\ Len(AcceptedSeen) = mc.final
       /\ mc.bestmatch = AcceptedSeen[mc.final].obj

\* the 2nd match was asked for, the first candidate accepted was passed
\* over and a later one returned
C3_Witness ==
  /\ Returned /\ mc.final = 2 /\ GoodObject(result)
  /\ Len(OrdinalAccepted(mc)) >= 3
  /\ result # OrdinalAccepted(mc)[1]

\* fewer than K candidates pass, and the result is NOTHING
C3_WitnessShort ==
  /\ Returned /\ mc.final = 3 /\ result = NOTHING
  /\ Len(OrdinalAccepted(mc)) = 2

\* C4: with a type filter that is preferred and not required (no MAT_TYPE)
\* and no count, when two or more accepted objects tie on the name and
\* exactly one of them has a type of the filter, that object is the result.
C4_TypePick ==
  (/\ Searched /\ mc.final = 0
   /\ mc.type # NOTYPE /\ "MAT_TYPE" \notin mc.flags
   /\ TieOnName
   /\ Cardinality(ObjectsOf(AcceptedSeen)) >= 2
   /\ Cardinality({x \in ObjectsOf(AcceptedSeen) : RightType(x)}) = 1)
  => \A x \in ObjectsOf(AcceptedSeen) : RightType(x) => result = x

\* C4, read over the enumeration: exactly one accepted entry of the
\* enumeration has a type of the filter.
C4_TypePickEnumerated ==
  (/\ Searched /\ mc.final = 0
   /\ mc.type # NOTYPE /\ "MAT_TYPE" \notin mc.flags
   /\ TieOnName
   /\ Len(AcceptedSeen) >= 2
   /\ Len(SelectSeq(AcceptedSeen, LAMBDA e : RightType(e.obj))) = 1)
  => \A x \in ObjectsOf(AcceptedSeen) : RightType(x) => result = x

\* the case of C4 in the enumeration: a wrong-typed object was accepted
\* after the one of the right type, which is returned
C4_WitnessEnumerated ==
  /\ Searched /\ mc.final = 0
  /\ mc.type # NOTYPE /\ "MAT_TYPE" \notin mc.flags
  /\ TieOnName
  /\ Len(AcceptedSeen) >= 2
  /\ Len(SelectSeq(AcceptedSeen, LAMBDA e : RightType(e.obj))) = 1
  /\ ~RightType(AcceptedSeen[Len(AcceptedSeen)].obj)
  /\ GoodObject(result) /\ RightType(result)

\* C5: with no count, no MAT_LAST and neither the type filter nor the lock
\* telling them apart, two or more accepted objects of the highest rank
\* (two exact matches, or two partial matches and no exact one) make the
\* result AMBIGUOUS.
C5_Ambiguous ==
  (/\ Searched /\ mc.final = 0
   /\ "MAT_LAST" \notin mc.flags
   /\ NoPreference
   /\ \/ Cardinality(ObjectsOf(ExactSeen)) >= 2
      \/ ExactSeen = <<>> /\ Cardinality(ObjectsOf(PartialSeen)) >= 2)
  => result = AMBIGUOUS

\* C5 witness: the two exits of the location that are both called "north"
\* were accepted for the text "north", and the result is AMBIGUOUS.
C5_Witness ==
  /\ Searched /\ result = AMBIGUOUS
  /\ mc.final = 0 /\ "MAT_LAST" \notin mc.flags /\ NoPreference
  /\ mc.name = n_north
  /\ {13, 14} \subseteq ObjectsOf(ExactSeen)

\* C5 witness of the other rank: two partial matches and no exact one
C5_WitnessPartial ==
  /\ Searched /\ result = AMBIGUOUS
  /\ mc.final = 0 /\ "MAT_LAST" \notin mc.flags /\ NoPreference
  /\ ExactSeen = <<>> /\ Cardinality(ObjectsOf(PartialSeen)) >= 2

\* C6: with MAT_ENGLISH, a text that starts with "my " while MAT_POSSESSION
\* is set lets no exit pool be enumerated (zone exits, master room exits,
\* the exits of the location, the exits 'where' carries), and a text that
\* starts with "toward " while MAT_EXIT or MAT_CARRIED_EXIT is set lets no
\* contents or proxy pool be enumerated.
C6_Adjectives ==
  /\ (/\ "MAT_ENGLISH" \in call.flags
      /\ "MAT_POSSESSION" \in call.flags
      /\ strncaseeq(call.xname, s_my))
     => \A i \in DOMAIN pools : pools[i] \notin {5, 6, 7, 9}
  /\ (/\ "MAT_ENGLISH" \in call.flags
      /\ call.flags \cap {"MAT_EXIT", "MAT_CARRIED_EXIT"} # {}
      /\ strncaseeq(call.xname, s_toward))
     => \A i \in DOMAIN pools : pools[i] \notin {1, 2, 3, 4}

\* the half of C6 that speaks of "toward "
C6_Toward ==
  (/\ "MAT_ENGLISH" \in call.flags
   /\ call.flags \cap {"MAT_EXIT", "MAT_CARRIED_EXIT"} # {}
   /\ strncaseeq(call.xname, s_toward))
  => \A i \in DOMAIN pools : pools[i] \notin {1, 2, 3, 4, 8}

\* a logged candidate matched the name and was not controlled
Uncontrolled(e) == e.branch \in {"abs", "exact", "partial"} /\ ~e.ctl

\* C8: with MAT_CONTROL every live object returned, by a shortcut or from a
\* pool, with a count or without, is controlled by the requester; and the
\* step that meets a matching candidate the requester does not control
\* sets the no-control latch and changes nothing else of the decision.
C8_Control ==
  /\ [](/\ (Returned /\ "MAT_CONTROL" \in call.flags /\ GoodObject(result))
             => controls(call.who, result)
        /\ (\E i \in DOMAIN seen : Uncontrolled(seen[i])) => mc.nocontrol = 1)
  /\ [][(/\ Len(seen') = Len(seen) + 1
         /\ Uncontrolled(seen'[Len(seen')]))
        => /\ mc'.nocontrol = 1
           /\ mc'.bestmatch = mc.bestmatch
           /\ mc'.curr = mc.curr
           /\ mc'.right_type = mc.right_type
           /\ mc'.exact = mc.exact
           /\ mc'.done = mc.done]_vars

\* C8 witness: with MAT_CONTROL a matching candidate that is not controlled
\* set the latch, and a controlled one met later was returned.
C8_Witness ==
  /\ Returned /\ "MAT_CONTROL" \in call.flags
  /\ GoodObject(result) /\ mc.nocontrol = 1
  /\ \E i, j \in DOMAIN seen :
       i < j /\ Uncontrolled(seen[i]) /\ Accepted(seen[j])
       /\ seen[j].obj = result

\* C9: with MAT_CONTENTS every live object returned is located in 'where'.
C9_Contents ==
  (Returned /\ "MAT_CONTENTS" \in call.flags /\ GoodObject(result))
  => Location(result) = call.where

\* C10: with MAT_TYPE every live object returned, by a shortcut or from a
\* pool, has a type of the filter; and a candidate is passed over for its
\* type only when MAT_TYPE is set.
C10_StrictType ==
  /\ (Returned /\ "MAT_TYPE" \in call.flags /\ GoodObject(result))
     => Typeof(result) \in call.type
  /\ \A i \in DOMAIN seen :
       seen[i].branch = "type"
       => "MAT_TYPE" \in call.flags /\ Typeof(seen[i].obj) \notin call.type

\* C10 witness: with MAT_TYPE a candidate whose name is the text was passed
\* over for its type and a candidate of a type of the filter returned.
C10_Witness ==
  /\ Returned /\ "MAT_TYPE" \in call.flags /\ call.type # NOTYPE
  /\ GoodObject(result) /\ Typeof(result) \in call.type
  /\ \E i \in DOMAIN seen :
       /\ seen[i].branch = "type"
       /\ ExactName([mc EXCEPT !.match = seen[i].obj])

\* the other half of C10: without MAT_TYPE an object of no type of the
\* filter is returned
C10_WitnessLax ==
  /\ Searched /\ "MAT_TYPE" \notin call.flags /\ call.type # NOTYPE
  /\ GoodObject(result) /\ Typeof(result) \notin call.type

\* C7: when the word in the place of the count is malformed ("0th",
\* "12nd"), parse_english returns 0 and leaves the name at the whole text it
\* was given and the flags as they were given, also when a restriction
\* adjective was consumed in front of the word.
C7_MalformedReset ==
  (Parsed /\ Malformed)
  => mc.final = 0 /\ mc.name = call.xname /\ mc.flags = call.flags

\* C7 as the code has it: on a malformed count parse_english returns 0,
\* leaves the name at the malformed word (the text behind the adjectives it
\* consumed and the spaces after them) and keeps the flags the adjectives
\* restricted; name and flags are the ones given exactly when no adjective
\* was consumed.
C7_MalformedKeepsAdjective ==
  (Parsed /\ Malformed)
  => /\ mc.final = 0
     /\ mc.name = SkipSpaces(AfterAdjectives.name)
     /\ mc.flags = AfterAdjectives.flags
     /\ (AfterAdjectives.name = call.xname
         => mc.name = call.xname /\ mc.flags = call.flags)
     /\ (AfterAdjectives.name # call.xname => mc.name # call.xname)

\* C7 witness: "my 12nd apple" with MAT_POSSESSION and MAT_NEIGHBOR: the
\* adjective is consumed, the count is malformed, and the name and the
\* flags are not the ones given.
C7_Witness ==
  /\ Parsed /\ Malformed
  /\ call.xname = s_my \o <<"1","2","n","d"," ">> \o n_apple
  /\ {"MAT_POSSESSION", "MAT_NEIGHBOR"} \subseteq call.flags
  /\ mc.final = 0
  /\ mc.name = <<"1","2","n","d"," ">> \o n_apple
  /\ "MAT_NEIGHBOR" \notin mc.flags

\* the candidate the accepted candidates of a log leave as the best one:
\* choose_thing applied to each in turn, from best on
RECURSIVE TieBreak(_, _)
TieBreak(best, log) ==
  IF log = <<>> THEN best
  ELSE TieBreak(choose_thing(mc.who, mc.type, mc.flags, best, Head(log).obj),
                Tail(log))

\* C11: with MAT_LAST the value returned is never AMBIGUOUS: it is a live
\* object or NOTHING; and when a search with no count accepted more than one
\* candidate, the result is the candidate choose_thing left as the best.
C11_LastNeverAmbiguous ==
  (Returned /\ "MAT_LAST" \in call.flags)
  => /\ result # AMBIGUOUS
     /\ (GoodObject(result) \/ result = NOTHING)
     /\ (via = "classify" /\ mc.final = 0 /\ Len(AcceptedSeen) >= 2)
        => result = TieBreak(NOTHING, AcceptedSeen)

\* the half of C11 that speaks of the pools: with MAT_LAST, no count and two
\* or more accepted candidates the result is the live object choose_thing
\* left as the best, and never AMBIGUOUS
C11_LastFromPools ==
  (/\ Searched /\ "MAT_LAST" \in call.flags
   /\ mc.final = 0 /\ Len(AcceptedSeen) >= 2)
  => GoodObject(result) /\ result = TieBreak(NOTHING, AcceptedSeen)

\* the case of C11 in the pools: two accepted candidates the filter and the
\* lock do not tell apart, and the later one returned
C11_WitnessPools ==
  /\ Searched /\ "MAT_LAST" \in call.flags
  /\ mc.final = 0 /\ Len(AcceptedSeen) >= 2 /\ NoPreference
  /\ AcceptedSeen[1].obj # AcceptedSeen[Len(AcceptedSeen)].obj
  /\ result = AcceptedSeen[Len(AcceptedSeen)].obj

\* the message the claim has a call send that ends without a live object
Expected ==
  IF result = AMBIGUOUS THEN msg_ambiguous
  ELSE IF mc.nocontrol = 1 THEN msg_permission
  ELSE msg_cant_see

\* C12: every call with MAT_NOISY that returns no live object has sent
\* exactly one message: the ambiguous one, else "Permission denied." when
\* the no-control latch is set, else the not-found one; a call that returns
\* a live object has sent none.
C12_Notice ==
  /\ (Returned /\ "MAT_NOISY" \in call.flags /\ ~GoodObject(result))
     => msgs = <<Expected>>
  /\ (Returned /\ GoodObject(result)) => msgs = <<>>

\* C12 as the code has it: the message goes to a requester that is a live
\* object; a call whose requester is no live object sends nothing, and so
\* does a call without MAT_NOISY and a call that has not yet returned.
C12_NoticeToLiveRequester ==
  /\ (Returned /\ "MAT_NOISY" \in call.flags /\ ~GoodObject(result))
     => msgs = IF GoodObject(call.who) THEN <<Expected>> ELSE <<>>
  /\ (Returned /\ GoodObject(result)) => msgs = <<>>
  /\ "MAT_NOISY" \notin call.flags => msgs = <<>>
  /\ ~Returned => msgs = <<>>

\* C12 witness: a noisy call ends AMBIGUOUS with the no-control latch set,
\* and the one message it sent is the ambiguous one.
C12_Witness ==
  /\ Returned /\ "MAT_NOISY" \in call.flags /\ GoodObject(call.who)
  /\ result = AMBIGUOUS /\ mc.nocontrol = 1
  /\ msgs = <<msg_ambiguous>>

\* the latch decides between the other two messages
C12_WitnessDenied ==
  /\ Returned /\ "MAT_NOISY" \in call.flags
  /\ result = NOTHING /\ mc.nocontrol = 1
  /\ msgs = <<msg_permission>>

\* the requester is no live object, the noisy call fails and sends nothing
C12_WitnessNoRequester ==
  /\ Searched /\ "MAT_NOISY" \in call.flags /\ ~GoodObject(call.who)
  /\ ~GoodObject(result) /\ msgs = <<>>

\* C13: when 'where' is no valid object and the flags have MAT_NEAR or
\* MAT_CONTENTS, the call returns NOTHING from its first test, whatever the
\* text: no shortcut has touched the context and no pool was enumerated.
C13_InvalidAnchor ==
  (/\ pc # "start"
   /\ ~goodwhere
   /\ call.flags \cap {"MAT_NEAR", "MAT_CONTENTS"} # {})
  => /\ Returned /\ result = NOTHING /\ via = "start"
     /\ mc = NewContext(call)
     /\ pools = <<>> /\ seen = <<>>

\* C13 witness: 'where' is NOTHING, MAT_NEAR is set and the text names a
\* player the player shortcut would have returned; the call returned NOTHING
\* from its first test.
C13_Witness ==
  /\ Returned /\ result = NOTHING /\ via = "start"
  /\ ~goodwhere /\ "MAT_NEAR" \in call.flags
  /\ PlayerWanted
  /\ GoodObject(match_player(call.who, call.xname, TRUE))
  /\ pools = <<>> /\ seen = <<>>

\* x is in the contents of c, is an exit of c, is named by a GENERIC`
\* attribute of c
InContents(x, c) == ~IsRoom(x) /\ ~IsExit(x) /\ Location(x) = c
ExitOf(x, c) == IsExit(x) /\ Source(x) = c
ProxyOf(x, c) ==
  \E k \in DOMAIN GenericAttrs(c) : GenericAttrs(c)[k].obj = x

\* x belongs to the pool the claim has at the i-th place: the contents of
\* 'where', its proxies, the contents of the location, its proxies, the
\* exits of the zone, of the master room and of the location, the location,
\* the exits of 'where'
InPool(i, x) ==
  CASE i = 1 -> InContents(x, call.where)
    [] i = 2 -> ProxyOf(x, call.where)
    [] i = 3 -> InContents(x, loc)
    [] i = 4 -> ProxyOf(x, loc)
    [] i = 5 -> ExitOf(x, Zone(loc))
    [] i = 6 -> ExitOf(x, MASTER_ROOM)
    [] i = 7 -> ExitOf(x, loc)
    [] i = 8 -> \E k \in DOMAIN ChainFrom(loc) : ChainFrom(loc)[k] = x
    [] i = 9 -> ExitOf(x, call.where)
    [] OTHER -> FALSE

ShortcutStages == {"me", "here", "player", "abs"}
AfterStage(p) ==
  CASE p = "me" -> "here"
    [] p = "here" -> "player"
    [] p = "player" -> "abs"
    [] p = "abs" -> "parse"

\* what "me", "here" and a dbref stand for when the shortcut takes the text
ShortcutTarget(p) ==
  CASE p = "me" /\ "MAT_ME" \in call.flags
       /\ strcaseeq(call.xname, <<"m","e">>) /\ goodwhere -> call.where
    [] p = "here" /\ "MAT_HERE" \in call.flags
       /\ strcaseeq(call.xname, <<"h","e","r","e">>)
       /\ goodwhere /\ ~IsRoom(call.where) -> Location(call.where)
    [] p = "abs" /\ "MAT_ABSOLUTE" \in call.flags
       /\ RealGoodObject(parse_objid(call.xname)) -> parse_objid(call.xname)
    [] OTHER -> NOTHING

\* C15: a shortcut that finds an object the requester had to control and
\* does not control does not end the call: the step sets the no-control
\* latch, returns nothing and sends nothing, and the call goes on to the
\* next shortcut and then to the pools; a call returns from a shortcut only
\* with the live object the shortcut found, controlled when MAT_CONTROL is
\* set.
C15_FallThrough ==
  /\ []((Returned /\ via \in ShortcutStages)
             => /\ GoodObject(result) /\ result = mc.match
                /\ ("MAT_CONTROL" \in call.flags => controls(call.who, result))
                /\ msgs = <<>>)
  /\ [][(pc \in ShortcutStages /\ mc.nocontrol = 0 /\ mc'.nocontrol = 1)
        => /\ pc' = AfterStage(pc)
           /\ result' = result /\ msgs' = msgs
           /\ mc'.bestmatch = mc.bestmatch
           /\ "MAT_CONTROL" \in call.flags
           /\ GoodObject(mc'.match) /\ ~controls(call.who, mc'.match)]_vars
  /\ [][(/\ pc \in {"me", "here"}
         /\ "MAT_CONTROL" \in call.flags /\ "MAT_CONTENTS" \notin call.flags
         /\ GoodObject(ShortcutTarget(pc))
         /\ Typeof(ShortcutTarget(pc)) \in call.type
         /\ ~controls(call.who, ShortcutTarget(pc)))
        => /\ pc' = AfterStage(pc)
           /\ mc'.nocontrol = 1
           /\ result' = result /\ msgs' = msgs]_vars

\* C15 witness: with MAT_CONTROL a shortcut found an object that is not
\* controlled and set the latch, no candidate of a pool set it, and the
\* search returned another object, which is controlled.
C15_Witness ==
  /\ Searched /\ "MAT_CONTROL" \in call.flags
  /\ mc.nocontrol = 1
  /\ \A i \in DOMAIN seen : ~Uncontrolled(seen[i])
  /\ GoodObject(result) /\ controls(call.who, result)

\* the name or an alias of x is the whole residual text
WholeName(x) == ExactName([mc EXCEPT !.match = x])

\* C17: a candidate is taken for a partial match only when MAT_EXACT is not
\* set and the candidate is no exit; so with MAT_EXACT every live object a
\* search returns has the residual text as its whole name or alias, or is
\* the object the text names by dbref.
C17_PartialGate ==
  /\ \A i \in DOMAIN seen :
       seen[i].branch = "partial"
       => /\ "MAT_EXACT" \notin call.flags
          /\ ~IsExit(seen[i].obj)
          /\ ~WholeName(seen[i].obj)
  /\ (Searched /\ "MAT_EXACT" \in call.flags /\ GoodObject(result))
     => (WholeName(result) \/ result = mc.abs)

\* C17 witness: with MAT_EXACT a candidate whose name only starts with the
\* text was passed over, and a candidate whose alias is the text returned.
C17_Witness ==
  /\ Searched /\ "MAT_EXACT" \in call.flags
  /\ GoodObject(result) /\ WholeName(result)
  /\ \E i \in DOMAIN seen :
       /\ seen[i].branch = "none"
       /\ ~IsExit(seen[i].obj)
       /\ string_match(Name(seen[i].obj), mc.name)

\* the other half of C17: without MAT_EXACT a partial match is returned
C17_WitnessPartial ==
  /\ Searched /\ "MAT_EXACT" \notin call.flags
  /\ GoodObject(result) /\ ~WholeName(result) /\ result # mc.abs
  /\ \E i \in DOMAIN seen : seen[i].branch = "partial" /\ seen[i].obj = result

\* choose_thing has returned; a is its thing1 (the best so far), b its
\* thing2 (the new one)
Chosen == pc = "chosen"
ArgA == mc.bestmatch
ArgB == mc.match

\* C18: of two invalid references, whichever they are, choose_thing returns
\* the second, b, except that it returns the first, a, when b is NOTHING and
\* a is another invalid reference.
C18_InvalidPair ==
  (Chosen /\ ~GoodObject(ArgA) /\ ~GoodObject(ArgB))
  => result = IF ArgB = NOTHING /\ ArgA # NOTHING THEN ArgA ELSE ArgB

\* C18 as the code has it: of two invalid references choose_thing returns
\* the first, a, except that it returns the second, b, when a is NOTHING;
\* on the pairs of NOTHING and AMBIGUOUS that is the rule of the claim.
C18_InvalidPairFirst ==
  (Chosen /\ ~GoodObject(ArgA) /\ ~GoodObject(ArgB))
  => /\ result = IF ArgA = NOTHING THEN ArgB ELSE ArgA
     /\ ({ArgA, ArgB} \subseteq {NOTHING, AMBIGUOUS}
         => result = IF ArgB = NOTHING /\ ArgA # NOTHING THEN ArgA ELSE ArgB)

\* C18 witness: AMBIGUOUS is the best so far, the new reference is an
\* invalid one below AMBIGUOUS, and AMBIGUOUS is returned.
C18_Witness ==
  /\ Chosen /\ ArgA = AMBIGUOUS /\ ArgB = AMBIGUOUS - 1
  /\ result = AMBIGUOUS

\* the pair of the comment in the code: AMBIGUOUS is kept over NOTHING
C18_WitnessKept ==
  /\ Chosen /\ ArgA = AMBIGUOUS /\ ArgB = NOTHING /\ result = AMBIGUOUS

\* x is a live object of a type of the filter; x is a live object whose
\* Basic lock the requester passes
OfType(x) == GoodObject(x) /\ Typeof(x) \in mc.type
PassesLock(x) == GoodObject(x) /\ could_doit(mc.who, x)

\* the argument the order of the claim picks: the valid one of the two,
\* else the one of a type of the filter, else the one that passes the lock,
\* else b
Preferred ==
  IF GoodObject(ArgA) # GoodObject(ArgB)
  THEN (IF GoodObject(ArgA) THEN ArgA ELSE ArgB)
  ELSE IF mc.type # NOTYPE /\ OfType(ArgA) # OfType(ArgB)
  THEN (IF OfType(ArgA) THEN ArgA ELSE ArgB)
  ELSE IF "MAT_CHECK_KEYS" \in mc.flags /\ PassesLock(ArgA) # PassesLock(ArgB)
  THEN (IF PassesLock(ArgA) THEN ArgA ELSE ArgB)
  ELSE ArgB

\* C19: for every pair (a, b) choose_thing returns one of the two, by this
\* order: the valid one when exactly one is valid; else the one of a type
\* of the filter when a filter is given and exactly one is; else the one
\* that passes the lock when MAT_CHECK_KEYS is set and exactly one does;
\* else b.
C19_Order ==
  Chosen => (result \in {ArgA, ArgB} /\ result = Preferred)

\* C19 as the code has it: the order decides every pair of which at least
\* one is a live object; of two invalid references a is returned, and b
\* when a is NOTHING; the result is always one of the two.
C19_OrderOnCandidates ==
  Chosen =>
    /\ result \in {ArgA, ArgB}
    /\ (GoodObject(ArgA) \/ GoodObject(ArgB)) => result = Preferred
    /\ (~GoodObject(ArgA) /\ ~GoodObject(ArgB))
       => result = IF ArgA = NOTHING THEN ArgB ELSE ArgA

\* C19 witness: two live objects, the first of a type of the filter and
\* failing the lock, the second of another type and passing it, with
\* MAT_CHECK_KEYS: the type decides and the first is returned.
C19_Witness ==
  /\ Chosen /\ GoodObject(ArgA) /\ GoodObject(ArgB)
  /\ mc.type # NOTYPE /\ "MAT_CHECK_KEYS" \in mc.flags
  /\ OfType(ArgA) /\ ~OfType(ArgB)
  /\ ~PassesLock(ArgA) /\ PassesLock(ArgB)
  /\ result = ArgA

\* the lock decides between two objects the filter does not tell apart
C19_WitnessLock ==
  /\ Chosen /\ GoodObject(ArgA) /\ GoodObject(ArgB)
  /\ OfType(ArgA) = OfType(ArgB) /\ "MAT_CHECK_KEYS" \in mc.flags
  /\ PassesLock(ArgA) /\ ~PassesLock(ArgB)
  /\ result = ArgA

\* nothing decides, and the second is returned
C19_WitnessLast ==
  /\ Chosen /\ GoodObject(ArgA) /\ GoodObject(ArgB) /\ ArgA # ArgB
  /\ OfType(ArgA) = OfType(ArgB) /\ PassesLock(ArgA) = PassesLock(ArgB)
  /\ result = ArgB

\* the place of a reference in the order of choose_thing: a live object
\* before an invalid reference, then (when a filter is given) a type of the
\* filter, then (with MAT_CHECK_KEYS) a passed lock
Rank(x) ==
  IF ~GoodObject(x) THEN 0
  ELSE 4
       + (IF mc.type # NOTYPE /\ Typeof(x) \in mc.type THEN 2 ELSE 0)
       + (IF "MAT_CHECK_KEYS" \in mc.flags /\ could_doit(mc.who, x)
          THEN 1 ELSE 0)

\* a step of the traversal that changes bestmatch
Replaces == pc = "search" /\ mc'.bestmatch # mc.bestmatch

\* C20: while the pools are traversed, bestmatch is replaced only by a
\* candidate that is strictly preferred to it in the order of choose_thing
\* (validity, then a type of the filter, then the lock when MAT_CHECK_KEYS
\* is set), and never by a worse one.
C20_StrictlyPreferred ==
  [][Replaces => Rank(mc'.bestmatch) > Rank(mc.bestmatch)]_vars

\* C20 as the code has it: while the pools are traversed, bestmatch is
\* replaced only by the candidate the step accepted, and only when that
\* candidate is preferred to it or ranks the same (on a tie the later
\* candidate replaces the earlier one); it is never replaced by a worse one.
C20_NeverWorse ==
  [][Replaces
     => /\ Rank(mc'.bestmatch) >= Rank(mc.bestmatch)
        /\ GoodObject(mc'.bestmatch)
        /\ Len(seen') = Len(seen) + 1
        /\ Accepted(seen'[Len(seen')])
        /\ seen'[Len(seen')].obj = mc'.bestmatch]_vars

\* the best candidate before the last accepted one was evaluated
BestBefore ==
  TieBreak(NOTHING, SubSeq(AcceptedSeen, 1, Len(AcceptedSeen) - 1))

\* C20 witness: a live best candidate was replaced by another object of the
\* same rank, the last one accepted, while a filter and the lock were asked.
C20_Witness ==
  /\ pc \in {"search", "classify"} /\ mc.final = 0
  /\ mc.type # NOTYPE /\ "MAT_CHECK_KEYS" \in mc.flags
  /\ Len(AcceptedSeen) >= 2
  /\ GoodObject(BestBefore)
  /\ mc.bestmatch = AcceptedSeen[Len(AcceptedSeen)].obj
  /\ mc.bestmatch # BestBefore
  /\ Rank(mc.bestmatch) = Rank(BestBefore)

\* a worse candidate was accepted and the best one kept
C20_WitnessKept ==
  /\ pc \in {"search", "classify"} /\ mc.final = 0
  /\ Len(AcceptedSeen) >= 2
  /\ mc.bestmatch = BestBefore
  /\ Rank(AcceptedSeen[Len(AcceptedSeen)].obj) < Rank(BestBefore)

\* the locals of the first and of the second call of a pair
Side(t) == IF peer.turn = t THEN Local ELSE peer.other

\* both calls of a pair have returned
BothReturned ==
  peer.phase = "paired" /\ Side(1).pc = "done" /\ Side(2).pc = "done"

\* C16: two calls interleaved step by step over a database that does not
\* change each return the value and send the messages they return and send
\* when run alone; a step of one call leaves the locals of the other as
\* they are.
C16_Reentrant ==
  /\ [](peer.phase = "paired"
        => \A t \in {1, 2} :
             Side(t).pc = "done" => Outcome(Side(t)) = peer.alone[t])
  /\ [][(peer.phase = "paired" /\ peer'.turn = peer.turn)
        => peer'.other = peer.other]_vars

\* C16 witness: the two calls were both inside the search loop when one was
\* suspended for the other; both have returned, with different values, one
\* with the no-control latch set and "Permission denied." sent, the other
\* with the latch clear and the ambiguous message sent, and each with the
\* outcome it had alone.
C16_Witness ==
  /\ BothReturned /\ peer.mixed
  /\ Side(1).result # Side(2).result
  /\ \E t \in {1, 2} :
       /\ Side(t).mc.nocontrol = 1 /\ Side(t).msgs = <<msg_permission>>
       /\ Side(3 - t).mc.nocontrol = 0 /\ Side(3 - t).msgs = <<msg_ambiguous>>
  /\ \A t \in {1, 2} : Outcome(Side(t)) = peer.alone[t]

\* the candidate the last step evaluated, as the log has it
LastSeen == seen[Len(seen)]

\* x was accepted as an exact match (its name, an alias or its dbref)
ExactAccepted(x) ==
  \E i \in DOMAIN ExactSeen : ExactSeen[i].obj = x

\* C21: in a search with no count, from the step that sets the exact latch
\* to the end of the traversal bestmatch is a candidate that was accepted
\* as an exact match, no candidate is taken for a partial match, and the
\* latch stays set; the step that sets the latch sets the match count to 1
\* and counts the preferred types anew from 0.
C21_ExactLatch ==
  /\ []((mc.final = 0 /\ mc.exact = 1 /\ pc \in {"search", "classify"})
        => /\ GoodObject(mc.bestmatch)
           /\ ExactAccepted(mc.bestmatch)
           /\ (WholeName(mc.bestmatch) \/ mc.bestmatch = mc.abs)
           /\ mc.curr >= 1)
  /\ [][(pc = "search" /\ mc.final = 0 /\ mc.exact = 1)
        => /\ mc'.exact = 1
           /\ LastSeen'.branch # "partial"
           /\ mc'.curr \in {mc.curr, mc.curr + 1}
           /\ (mc'.curr = mc.curr + 1
               => LastSeen'.branch \in {"exact", "abs"})]_vars
  /\ [][(pc = "search" /\ mc.exact = 0 /\ mc'.exact = 1)
        => /\ mc.final = 0
           /\ LastSeen'.branch \in {"exact", "abs"}
           /\ mc'.bestmatch = LastSeen'.obj
           /\ mc'.curr = 1
           /\ mc'.right_type =
                IF mc.type # NOTYPE /\ Typeof(mc'.bestmatch) \in mc.type
                THEN 1 ELSE 0]_vars

\* C21 witness: two partial matches were counted, then an exact match set
\* the latch and the count went back to 1, and a candidate met after it
\* whose name starts with the text was not taken.
C21_Witness ==
  /\ pc \in {"search", "classify"} /\ mc.final = 0
  /\ mc.exact = 1 /\ mc.curr = 1
  /\ "MAT_EXACT" \notin mc.flags
  /\ \E i, j, k, l \in DOMAIN seen :
       /\ i < j /\ j < k /\ k < l
       /\ seen[i].branch = "partial" /\ seen[i].ctl
       /\ seen[j].branch = "partial" /\ seen[j].ctl
       /\ seen[k].branch = "exact" /\ seen[k].ctl
       /\ seen[k].obj = mc.bestmatch
       /\ seen[l].branch = "none"
       /\ ~IsExit(seen[l].obj)
       /\ string_match(Name(seen[l].obj), mc.name)

\* the list the i-th pool enumerates: its kind and the object it belongs to
PoolList(i) ==
  CASE i = 1 -> <<"contents", call.where>>
    [] i = 2 -> <<"proxies", call.where>>
    [] i = 3 -> <<"contents", loc>>
    [] i = 4 -> <<"proxies", loc>>
    [] i = 5 -> <<"exits", Zone(loc)>>
    [] i = 6 -> <<"exits", MASTER_ROOM>>
    [] i = 7 -> <<"exits", loc>>
    [] i = 8 -> <<"self", loc>>
    [] i = 9 -> <<"exits", call.where>>

\* the pools that enumerate the contents or the exits of an object
ListPools == {1, 3, 5, 6, 7, 9}

\* the body of the search loop ran once: no place of the loop was entered
\* twice
LoopOnce == \A i, j \in DOMAIN pools : i < j => pools[i] < pools[j]

\* C22: within one call the body of the search loop runs once and no list
\* (the contents or the exits of one object) is enumerated twice, so no
\* object of such a list is counted twice.
C22_NoPoolTwice ==
  /\ LoopOnce
  /\ \A i, j \in DOMAIN pools :
       i < j => PoolList(pools[i]) # PoolList(pools[j])
  /\ \A i, j \in DOMAIN seen :
       (/\ i < j
        /\ seen[i].pool \in ListPools /\ seen[j].pool \in ListPools
        /\ Accepted(seen[i]) /\ Accepted(seen[j]))
       => seen[i].obj # seen[j].obj

\* the half of C22 that holds: the body of the search loop runs once, and a
\* list is enumerated twice only as the exits of the zone, of the master
\* room and of the location when two of these are one room
C22_LoopOnce ==
  /\ LoopOnce
  /\ \A i, j \in DOMAIN pools :
       (i < j /\ PoolList(pools[i]) = PoolList(pools[j]))
       => {pools[i], pools[j]} \subseteq {5, 6, 7}

\* the case of C22: the location is the master room, its exits were
\* enumerated twice and one exit counted twice
C22_WitnessTwice ==
  /\ Searched /\ loc = MASTER_ROOM
  /\ \E i, j \in DOMAIN seen :
       /\ i < j /\ seen[i].pool = 6 /\ seen[j].pool = 7
       /\ seen[i].obj = seen[j].obj
       /\ Accepted(seen[i]) /\ Accepted(seen[j])
  /\ mc.curr = 2

\* C23: with MAT_CONTAINER the one object evaluated in the container step
\* is the location of 'where'; no object that follows the location in the
\* chain it is a member of is evaluated, whatever the type of the location.
C23_ContainerOnly ==
  \A i \in DOMAIN seen : seen[i].pool = 8 => seen[i].obj = loc

\* C23 where the location is a room: a room is a member of no chain, and
\* the location is the one candidate of the container step
C23_ContainerRoom ==
  (GoodObject(loc) /\ IsRoom(loc))
  => \A i \in DOMAIN seen : seen[i].pool = 8 => seen[i].obj = loc

\* the case of C23: the location is a thing, and the container step returned
\* an object that stands after it in the contents of the room
C23_WitnessSibling ==
  /\ Searched /\ GoodObject(loc) /\ ~IsRoom(loc)
  /\ GoodObject(result) /\ result # loc
  /\ Location(result) = Location(loc)
  /\ \A i \in DOMAIN seen : seen[i].obj = result => seen[i].pool = 8

\* the location is a room and was the one candidate of the container step
C23_WitnessRoom ==
  /\ Searched /\ GoodObject(loc) /\ IsRoom(loc)
  /\ \E i \in DOMAIN seen : seen[i].pool = 8 /\ seen[i].obj = loc

\* the text is "<n><s> <noun>"
CountText(n, x, noun) == call.xname = Digits(n) \o x \o <<" ">> \o noun

\* C24: for every number n and suffix s, parse_english given "<n><s> <noun>"
\* returns n and leaves the name at <noun> exactly when n >= 1 and s is,
\* in either case of letters, the suffix that agrees with n; in every other
\* case it returns 0.
C24_OrdinalGrammar ==
  Parsed =>
    \A n \in Numbers, x \in Suffixes, noun \in Nouns :
      CountText(n, x, noun)
      => IF n >= 1 /\ strcaseeq(x, AgreeingSuffix(n))
         THEN mc.final = n /\ mc.name = noun /\ mc.flags = call.flags
         ELSE mc.final = 0 /\ mc.name # noun

\* C24 witness: "112ND apple" is the 112th apple: past a hundred the last
\* digit alone decides, and the case of the letters does not matter.
C24_Witness ==
  /\ Parsed
  /\ CountText(112, <<"N","D">>, n_apple)
  /\ mc.final = 112 /\ mc.name = n_apple

\* "12nd apple" and "0th apple" are no counts
C24_WitnessRefused ==
  /\ Parsed
  /\ (CountText(12, s_nd, n_apple) \/ CountText(0, s_th, n_apple))
  /\ mc.final = 0 /\ mc.name = call.xname

\* the text of the call starts with the adjective a, in any case
StartsWith(a) == strncaseeq(call.xname, a)

\* the text of the call starts with "here " or "this ", and not "this here "
PlainHere == (StartsWith(s_here) \/ StartsWith(s_this)) /\ ~StartsWith(s_this_here)

C25_WitnessHere ==
  /\ Parsed
  /\ call.xname = s_here \o n_apple
  /\ ParseFlags \subseteq call.flags
  /\ mc.name = n_apple
  /\ mc.flags \cap ParseFlags = {"MAT_NEIGHBOR", "MAT_CARRIED_EXIT"}

\* the branches that hand the candidate to matched()
NameBranches == {"abs", "exact", "partial"}

\* the step evaluates one candidate
Evaluates == pc = "search" /\ Len(seen') = Len(seen) + 1

\* the candidate of the step fails can_interact
InteractRejected == Evaluates /\ LastSeen'.branch = "interact"

\* the candidate of the step matches the name and fails MATCH_CONTROLS
ControlRejected ==
  Evaluates /\ LastSeen'.branch \in NameBranches /\ ~LastSeen'.ctl

\* the candidate of the step matches the name, is controlled, no count was
\* asked for, and choose_thing prefers the best match so far to it
TieBreakLost ==
  /\ Evaluates
  /\ LastSeen'.branch \in NameBranches
  /\ LastSeen'.ctl
  /\ mc.final = 0
  /\ BEST_MATCH([mc EXCEPT !.match = LastSeen'.obj]) # LastSeen'.obj

\* the fields of the context but the candidate cursor and the no-control
\* latch
Counters(m) ==
  <<m.bestmatch, m.curr, m.right_type, m.exact, m.final, m.done, m.abs,
    m.who, m.where, m.flags, m.type, m.name>>

\* C26: a step of the search that evaluates a candidate which fails the
\* interaction check, fails the control check, or loses the comparison with
\* the best match so far, leaves bestmatch, the match count (which is the
\* ordinal counter), the preferred-type count, the exact latch and the
\* early-stop latch as they were; the no-control latch is set to 1 by a
\* control rejection and left as it was by the other two.
C26_Frame ==
  /\ [][(InteractRejected \/ TieBreakLost)
        => (Counters(mc') = Counters(mc) /\ mc'.nocontrol = mc.nocontrol)]_vars
  /\ [][ControlRejected
        => (Counters(mc') = Counters(mc) /\ mc'.nocontrol = 1)]_vars

\* C26 witness: after one match was counted, a candidate with the name was
\* refused for want of control: the latch is set, the count is still 1 and
\* the best match is still the other object
C26_Witness ==
  /\ pc = "search"
  /\ Len(seen) >= 2
  /\ LastSeen.branch \in NameBranches
  /\ ~LastSeen.ctl
  /\ mc.nocontrol = 1
  /\ mc.curr = 1
  /\ GoodObject(mc.bestmatch)
  /\ mc.bestmatch # LastSeen.obj

\* C26 witness: after one match was counted, a controlled candidate with the
\* name lost the comparison: the count is still 1
C26_WitnessTieBreak ==
  /\ pc = "search"
  /\ Len(seen) >= 2
  /\ LastSeen.branch \in NameBranches
  /\ LastSeen.ctl
  /\ mc.final = 0
  /\ mc.curr = 1
  /\ mc.nocontrol = 0
  /\ GoodObject(mc.bestmatch)
  /\ mc.bestmatch # LastSeen.obj

\* C26 witness: after one match was counted, a candidate failed the
\* interaction check
C26_WitnessInteract ==
  /\ pc = "search"
  /\ Len(seen) >= 2
  /\ LastSeen.branch = "interact"
  /\ mc.curr = 1
  /\ GoodObject(mc.bestmatch)

\* npc_findpath has returned
FindReturned == pc = "returned"

\* the arguments pass the four tests at the head of npc_findpath
ValidFind ==
  /\ NpcGood(npc.start) /\ NpcIsRoom(npc.start)
  /\ NpcGood(npc.stop) /\ NpcIsRoom(npc.stop)
  /\ npc.start # npc.stop
  /\ NpcGood(npc.player)

\* the rooms of the world are no more than the arrays hold
FitsLimit == Cardinality({x \in NpcPlaces : NpcIsRoom(x)}) <= NPC_MAX_NODES

\* the room an exit is in
SourceOf(e) == CHOOSE r \in NpcPlaces : \E i \in DOMAIN ExitsOfRoom(r) : ExitsOfRoom(r)[i] = e

\* the player sees the exit and passes its lock, and it leads to a room
Usable(e) ==
  /\ e \in NpcExits
  /\ npc.exit[e].see
  /\ npc.exit[e].pass
  /\ NpcIsRoom(npc.exit[e].dest)

\* the rooms within k usable exits of the start
RECURSIVE Within(_)
Within(k) ==
  IF k = 0 THEN {npc.start}
  ELSE Within(k - 1)
       \cup {npc.exit[e].dest : e \in {x \in NpcExits :
                                        Usable(x) /\ SourceOf(x) \in Within(k - 1)}}

\* stop can be reached from start through usable exits
Reachable == npc.stop \in Within(Cardinality(NpcExits))

\* the least number of usable exits from start to stop
Distance ==
  CHOOSE k \in 0..Cardinality(NpcExits) :
    /\ npc.stop \in Within(k)
    /\ \A j \in 0..(k - 1) : npc.stop \notin Within(j)

\* the words of a text, a space between two of them
RECURSIVE Words(_, _)
Words(text, word) ==
  IF text = <<>> THEN <<word>>
  ELSE IF Head(text) = " " THEN <<word>> \o Words(Tail(text), <<>>)
  ELSE Words(Tail(text), Append(word, Head(text)))

\* the object a word "#<digits>" names, NOTHING for any other word
ExitNamed(word) ==
  IF Len(word) >= 2 /\ word[1] = "#" /\ \A i \in 2..Len(word) : isdigit(word[i])
  THEN strtoul(Drop(word, 1))
  ELSE NOTHING

\* the objects the returned text names, in order
ReturnedPath ==
  LET w == Words(npc.buff, <<>>) IN [i \in 1..Len(w) |-> ExitNamed(w[i])]

\* where one is after the first i exits of p, taken from start; NOTHING once
\* an exit of p is not usable or not in the room one is in
RECURSIVE Walk(_, _)
Walk(p, i) ==
  IF i = 0 THEN npc.start
  ELSE IF Usable(p[i]) /\ SourceOf(p[i]) = Walk(p, i - 1)
  THEN npc.exit[p[i]].dest
  ELSE NOTHING

\* C27: on valid distinct rooms start and stop, a valid player, and a world
\* with no more rooms than NPC_MAX_NODES, npc_findpath returns; when stop can
\* be reached through exits the player sees and passes, the text returned
\* names exits that, taken in order from start, are each usable and in the
\* room reached so far, end at stop, and are as few as any such path; when
\* stop cannot be reached the text is "#-1 PATH NOT FOUND".
C27_ShortestPath ==
  /\ []((FindReturned /\ ValidFind /\ FitsLimit)
        => IF Reachable
           THEN /\ Walk(ReturnedPath, Len(ReturnedPath)) = npc.stop
                /\ Len(ReturnedPath) = Distance
           ELSE npc.buff = e_path_not_found)
  /\ <>FindReturned

\* C27 witness: from #0 the path #5 #7 #9 of three exits is returned, while
\* the other exit of #0 leads straight to the stop and is hidden or locked
C27_Witness ==
  /\ FindReturned
  /\ FitsLimit
  /\ npc.start = 0
  /\ npc.buff = <<"#","5"," ","#","7"," ","#","9">>
  /\ npc.exit[6].dest = npc.stop
  /\ ~Usable(6)

\* C27 witness: the only way to the stop would be a locked exit, and no path
\* is found
C27_WitnessNoPath ==
  /\ FindReturned
  /\ ValidFind
  /\ FitsLimit
  /\ ~npc.exit[6].pass
  /\ npc.start = 0
  /\ npc.buff = e_path_not_found

\* C27 witness: with more rooms than the arrays hold the last node does not
\* fit
C27_WitnessExhausted ==
  /\ FindReturned
  /\ ValidFind
  /\ ~FitsLimit
  /\ Reachable
  /\ npc.buff = e_last_memory

====
